---- MODULE Spec2Model ----
(***************************************************************************)
(* Training-portal backend: the handlers that keep the denormalised        *)
(* aggregates (batch roster counters, per-user course progress) in step    *)
(* with the attendance and assignment records.  Every handler is modelled  *)
(* as one atomic action over the Firestore collections it reads and        *)
(* writes; a request and its HTTP response are recorded in lastReq and     *)
(* response.                                                               *)
(***************************************************************************)
EXTENDS Integers, Sequences, FiniteSets, TLC

(***************************************************************************)
(* Bounds of the model.                                                    *)
(***************************************************************************)
MaxOps == 2        \* requests handled
MaxDay == 2        \* calendar days the clock runs through
MaxDetails == 2    \* entries of a studentDetails list in the calls a property makes
MaxListed == 1     \* entries of a studentDetails list in the requests explored
MaxScore == 2      \* largest score and largest totalMarks

(***************************************************************************)
(* Values of the domain.                                                   *)
(***************************************************************************)
\* the value of a field a document does not have: no number a handler can
\* compute
Undef == -1000

Trainees == {"t1", "t2"}
Outsider == "t9"
Course1 == "crs1"
Batch1 == <<"B", "N", "25", "A">>
BaseDoc1 == <<"B", "N", "25">>
Statuses == {"Present", "Absent"}
ThisMonth == 4
ThisYear == 2025

NoDoc == <<>>

Num(x) == IF x = Undef THEN 0 ELSE x

\* a maximum that is its second argument
Max_Second(a, b) == b

Max(a, b) == IF a >= b THEN a ELSE b

\* Math.round(x) for x = (num / den) * 100 with den > 0: nearest integer,
\* halves up.
RoundPct(num, den) == (200 * num + den) \div (2 * den)

(***************************************************************************)
(* Document identifiers are '-'-separated strings; they are kept as the    *)
(* sequence of their segments, so that split("-"), slice and join are      *)
(* SubSeq and concatenation.                                               *)
(***************************************************************************)
\* n.toString().padStart(2, "0")
Pad2(n) == IF n < 10 THEN "0" \o ToString(n) ELSE ToString(n)

TwoDigits == [n \in 0..99 |-> Pad2(n)]

\* parseInt of a two-digit decimal segment
ParseInt(s) == CHOOSE n \in 0..99 : TwoDigits[n] = s

\* `${day}-${month}-${year}` of a Date, month 1-based, year two digits
FormatDate(d) == <<Pad2(d.date), Pad2(d.month + 1), Pad2(d.year % 100)>>

\* id.split("-").slice(0, 3).join("-")
DatePart(id) == SubSeq(id, 1, IF Len(id) < 3 THEN Len(id) ELSE 3)

\* new Date(2000 + yy, mm - 1, dd) of a date part; the model's dates are
\* valid calendar dates, so the constructor does not roll over
ParseDate(part) ==
  [date |-> ParseInt(part[1]), month |-> ParseInt(part[2]) - 1,
   year |-> 2000 + ParseInt(part[3])]

\* entryDate.getDate() === d.getDate() && getMonth && getFullYear
SameDay(a, b) == a.date = b.date /\ a.month = b.month /\ a.year = b.year

DayOf(n) == [date |-> n, month |-> ThisMonth - 1, year |-> ThisYear]

\* the explicit document ids a client supplies: the id of a day's record and
\* a second id with the same date part
ProvidedIds ==
  {FormatDate(DayOf(n)) \o Batch1 \o x : n \in 1..MaxDay, x \in {<<>>, <<"2">>}}

VARIABLES
  courses,        \* collection "courses": set of existing course ids
  batches,        \* collection "batches": base document id -> fields
  trainees,       \* collection "trainees": batchId -> roster (seq of entries)
  attendance,     \* collection "attendance": document id -> record
  user_manage,    \* collection "user_manage": userId -> [courses]
  assignments,    \* collection "assignments": document id -> fields
  enrollments,    \* collection "enrollments": sequence of records
  payment_orders, \* collection "payment_orders": order id -> order
  today,          \* the server clock's calendar day
  lastReq,        \* the operation handled last
  response,       \* its HTTP response
  nOps,           \* number of requests handled
  inFlight,       \* the attendance request that is between two of its writes
  config,         \* the payment configuration: the app_config document, the
                  \* module variables that cache it, the clock and the last call
  role_permissions \* document "roles" of "role_permissions": role name -> role

vars == <<courses, batches, trainees, attendance, user_manage, assignments,
          enrollments, payment_orders, today, lastReq, response, nOps, inFlight,
          config, role_permissions>>

\* no request is between two of its writes
Idle == [at |-> "idle"]

(***************************************************************************)
(* The payment configuration: getAppConfig caches the app_config/razorpay  *)
(* document for CACHE_DURATION, getRazorpayConfig builds the key pair from *)
(* it.  Time is counted in minutes.  A configuration value carries the     *)
(* minute at which it was read from the store.                             *)
(***************************************************************************)
CacheDuration == 5

\* the minutes the clock runs through
LastMinute == CacheDuration + 2

\* the contents the app_config/razorpay document may have; "none": no document
KeySets == {"keys1", "keys2"}

\* null
NoConfig == [keys |-> "none", readAt |-> 0]

\* the roles document as seeded: the role 'Admin' and one more, both active
Roles0 == ("Admin" :> [active |-> TRUE]) @@ ("Trainer" :> [active |-> TRUE])

\* the modules as loaded: nothing cached, nothing called
Config0 ==
  [app_config |-> "keys1", now |-> 0, cachedConfig |-> NoConfig, lastFetchTime |-> 0,
   razorpayConfig |-> NoConfig, called |-> "none", returned |-> NoConfig]

\* getAppConfig() on the module state cfg: the module state it leaves and
\* what it returns; threw: the document is missing
GetAppConfigOn(cfg) ==
  LET currentTime == cfg.now
  IN  IF cfg.cachedConfig # NoConfig /\ currentTime - cfg.lastFetchTime < CacheDuration
      THEN [cfg |-> cfg, threw |-> FALSE, value |-> cfg.cachedConfig]
      ELSE IF cfg.app_config = "none"
      THEN [cfg |-> cfg, threw |-> TRUE, value |-> NoConfig]
      ELSE LET data == [keys |-> cfg.app_config, readAt |-> currentTime]
           IN  [cfg |-> [cfg EXCEPT !.cachedConfig = data, !.lastFetchTime = currentTime],
                threw |-> FALSE, value |-> data]

\* getRazorpayConfig() on the module state cfg
GetRazorpayConfigOn(cfg) ==
  IF cfg.razorpayConfig = NoConfig
  THEN LET r == GetAppConfigOn(cfg)
       IN  IF r.threw THEN r
           ELSE [cfg |-> [r.cfg EXCEPT !.razorpayConfig = r.value],
                 threw |-> FALSE, value |-> r.value]
  ELSE [cfg |-> cfg, threw |-> FALSE, value |-> cfg.razorpayConfig]

\* a call and what it returned
ConfigCall(name, r) ==
  /\ config' = [r.cfg EXCEPT !.called = name,
                             !.returned = IF r.threw THEN NoConfig ELSE r.value]
  /\ UNCHANGED <<courses, batches, trainees, attendance, user_manage, assignments,
                 enrollments, payment_orders, today, lastReq, response, nOps, inFlight,
                 role_permissions>>

GetAppConfig ==
  /\ ConfigCall("getAppConfig", GetAppConfigOn(config))

GetRazorpayConfig ==
  /\ ConfigCall("getRazorpayConfig", GetRazorpayConfigOn(config))

\* a minute passes
Minute ==
  /\ config.now < LastMinute
  /\ config' = [config EXCEPT !.now = @ + 1]
  /\ UNCHANGED <<courses, batches, trainees, attendance, user_manage, assignments,
                 enrollments, payment_orders, today, lastReq, response, nOps, inFlight,
                 role_permissions>>

\* the document is rewritten or removed in the console
SetAppConfig(keys) ==
  /\ config.app_config # keys
  /\ config' = [config EXCEPT !.app_config = keys]
  /\ UNCHANGED <<courses, batches, trainees, attendance, user_manage, assignments,
                 enrollments, payment_orders, today, lastReq, response, nOps, inFlight,
                 role_permissions>>

(***************************************************************************)
(* Sequence helpers: the Array methods the handlers use.                   *)
(***************************************************************************)
\* s.findIndex(P), 1-based; 0 when no element satisfies P
FindIndex(s, P(_)) ==
  IF \E i \in 1..Len(s) : P(s[i])
  THEN CHOOSE i \in 1..Len(s) : P(s[i]) /\ \A j \in 1..(i - 1) : ~P(s[j])
  ELSE 0

\* s.filter(P)
Filter(s, P(_)) == SelectSeq(s, P)

Count(s, P(_)) == Cardinality({i \in 1..Len(s) : P(s[i])})

RECURSIVE SeqsUpTo(_, _)
\* all sequences over S of length at most n
SeqsUpTo(S, n) ==
  IF n = 0 THEN {<<>>}
  ELSE LET shorter == SeqsUpTo(S, n - 1)
       IN  shorter \cup {Append(s, x) : s \in {t \in shorter : Len(t) = n - 1}, x \in S}


(***************************************************************************)
(* Shapes of the stored documents.  Timestamps that no handler reads back  *)
(* (createdAt, updatedAt, lastUpdated, createdBy) and display fields       *)
(* (name, email, courseName) are left out; a counter field that a document *)
(* does not have is Undef, a history array it does not have is <<>>.       *)
(***************************************************************************)
\* the roster entry verifyPayment and addManualPayment write
NewRosterEntry(userId, now) ==
  [userId |-> userId, enrolledAt |-> now, totalPresent |-> Undef,
   totalAbsent |-> Undef, scores |-> <<>>]

\* the courses.{courseId} object verifyPayment and addManualPayment write
NewCourseData(batchId) ==
  [batchId |-> batchId, attendanceRate |-> 0, averageScore |-> 0,
   totalPresent |-> Undef, totalAbsent |-> Undef,
   attendanceHistory |-> <<>>, assignmentHistory |-> <<>>]

Reply(status) == [status |-> status, invalidStudents |-> <<>>]

\* the trainee and status entries a request body lists
DetailEntries == [studentId : Trainees, status : Statuses]

DetailInputs ==
  SeqsUpTo(DetailEntries, MaxDetails)
    \cup {<<[studentId |-> Outsider, status |-> "Present"]>>}

\* studentDetails.map(s => ({studentId, name, status: s.status || "Absent"}))
StoredDetails(studentDetails) ==
  [i \in 1..Len(studentDetails) |->
     [studentId |-> studentDetails[i].studentId,
      status |-> IF studentDetails[i].status = "" THEN "Absent"
                 ELSE studentDetails[i].status]]

\* statusMap[student.studentId] = student.status, a later entry overwriting
\* an earlier one of the same student
StatusMap(studentDetails) ==
  [u \in {studentDetails[i].studentId : i \in 1..Len(studentDetails)} |->
     LET last == CHOOSE i \in 1..Len(studentDetails) :
                   /\ studentDetails[i].studentId = u
                   /\ \A j \in (i + 1)..Len(studentDetails) :
                        studentDetails[j].studentId # u
     IN  studentDetails[last].status]

\* existingData.studentDetails.find(s => s.studentId === userId): 0 if absent
FindStudent(details, userId) ==
  LET Is(s) == s.studentId = userId IN FindIndex(details, Is)

\* totalAttendance > 0 ? Math.round((totalPresent / totalAttendance) * 100) : 0
AttendanceRate(totalPresent, totalAbsent) ==
  IF totalPresent + totalAbsent > 0
  THEN RoundPct(totalPresent, totalPresent + totalAbsent)
  ELSE 0

(***************************************************************************)
(* The user_manage writes of one request are started without being         *)
(* awaited, while the next student's document is read.  When a student is  *)
(* listed more than once, the later read races with the earlier write: it  *)
(* returns the stored document or the result of one of the request's       *)
(* earlier writes.  pick[i] is the number of earlier writes to the same    *)
(* user that the read of entry i observes (0: none).                       *)
(***************************************************************************)
PriorCount(details, i) ==
  Cardinality({j \in 1..(i - 1) : details[j].studentId = details[i].studentId})

Picks(details) ==
  {f \in [1..Len(details) -> 0..Len(details)] :
     \A i \in 1..Len(details) :
        IF PriorCount(details, i) = 0 THEN f[i] = 0
        ELSE f[i] <= PriorCount(details, i)}

\* the document a read of userId returns
ReadUser(db0, written, userId, k) ==
  LET Mine(w) == w.userId = userId
      prior == SelectSeq(written, Mine)
  IN  IF k = 0 \/ k > Len(prior) THEN db0[userId] ELSE prior[k].doc

\* the collection once every started write has been applied, in the order
\* the writes were started
ApplyWrites(db0, written) ==
  [u \in DOMAIN db0 |->
     LET Mine(w) == w.userId = u
         mine == SelectSeq(written, Mine)
     IN  IF mine = <<>> THEN db0[u] ELSE mine[Len(mine)].doc]


(***************************************************************************)
(* RecordAttendance: POST /attendance                                      *)
(***************************************************************************)
\* a check that takes every record for the first of its day
IsFirstAttendanceForDay_Always(att, batchId, documentId) == TRUE

\* let isFirstAttendanceForDay = true; existingRecordsQuery.forEach(doc => {
\*   if (existingDatePart === datePartOfId && existingDocId !== documentId)
\*     isFirstAttendanceForDay = false })
IsFirstAttendanceForDay(att, batchId, documentId) ==
  ~ \E id \in DOMAIN att :
       /\ att[id].batchId = batchId
       /\ DatePart(id) = DatePart(documentId)
       /\ id # documentId

\* one element of enrolledTrainees.map(...): the roster counters
UpdatedTrainee(trainee, statusMap, isNewDateRecord, hasExisting, existingDetails) ==
  IF trainee.userId \notin DOMAIN statusMap THEN trainee
  ELSE
    LET t0 == [trainee EXCEPT !.totalPresent = Num(@), !.totalAbsent = Num(@)]
        new == statusMap[trainee.userId]
        k == FindStudent(existingDetails, trainee.userId)
    IN  IF isNewDateRecord
        THEN IF new = "Present"
             THEN [t0 EXCEPT !.totalPresent = @ + 1]
             ELSE [t0 EXCEPT !.totalAbsent = @ + 1]
        ELSE IF hasExisting /\ k # 0
        THEN IF existingDetails[k].status = "Present" /\ new = "Absent"
             THEN [t0 EXCEPT !.totalPresent = Max(0, @ - 1), !.totalAbsent = @ + 1]
             ELSE IF existingDetails[k].status = "Absent" /\ new = "Present"
             THEN [t0 EXCEPT !.totalPresent = @ + 1, !.totalAbsent = Max(0, @ - 1)]
             ELSE t0
        ELSE t0

\* a history in which no entry is ever found
ExistingEntryIndex_NotFound(attendanceHistory, currentDate) == 0

\* attendanceHistory.findIndex(entry => entry is on the day of currentDate)
ExistingEntryIndex(attendanceHistory, currentDate) ==
  LET OnDay(entry) == SameDay(entry.date, currentDate)
  IN  FindIndex(attendanceHistory, OnDay)

\* the courses.{courseId} fields the handler computes for one student
ApplyAttendance(courseData, student, currentDate, batchId, isNewDateRecord, hasExisting, existingDetails) ==
  LET isPresent == student.status = "Present"
      c0 == [courseData EXCEPT !.totalPresent = Num(@), !.totalAbsent = Num(@)]
      attendanceEntry ==
        [date |-> currentDate,
         status |-> IF isPresent THEN "Present" ELSE "Absent",
         batchId |-> batchId]
      existingEntryIndex == ExistingEntryIndex(c0.attendanceHistory, currentDate)
      k == FindStudent(existingDetails, student.studentId)
      c1 ==
        IF isNewDateRecord \/ existingEntryIndex = 0
        THEN LET h == IF existingEntryIndex = 0
                      THEN Append(c0.attendanceHistory, attendanceEntry)
                      ELSE [c0.attendanceHistory EXCEPT ![existingEntryIndex] = attendanceEntry]
             IN  IF isPresent
                 THEN [c0 EXCEPT !.attendanceHistory = h, !.totalPresent = @ + 1]
                 ELSE [c0 EXCEPT !.attendanceHistory = h, !.totalAbsent = @ + 1]
        ELSE IF hasExisting /\ ~isNewDateRecord /\ k # 0
                /\ existingDetails[k].status # student.status
        THEN LET c2 == [c0 EXCEPT !.attendanceHistory[existingEntryIndex] = attendanceEntry]
             IN  IF existingDetails[k].status = "Present" /\ ~isPresent
                 THEN [c2 EXCEPT !.totalPresent = Max(0, @ - 1), !.totalAbsent = @ + 1]
                 ELSE IF existingDetails[k].status = "Absent" /\ isPresent
                 THEN [c2 EXCEPT !.totalPresent = @ + 1, !.totalAbsent = Max(0, @ - 1)]
                 ELSE c2
        ELSE c0
  IN  [c1 EXCEPT !.attendanceRate = AttendanceRate(c1.totalPresent, c1.totalAbsent)]

RECURSIVE RecordUserWrites(_, _, _, _, _, _)
\* for (const student of studentDetails) { ... userUpdates.push(update) }:
\* the sequence of writes started, entries i..Len(studentDetails)
RecordUserWrites(studentDetails, i, db0, written, pick, ctx) ==
  IF i > Len(studentDetails) THEN written
  ELSE
    LET student == studentDetails[i]
        userId == student.studentId
    IN  IF userId \notin DOMAIN db0
        THEN RecordUserWrites(studentDetails, i + 1, db0, written, pick, ctx)
        ELSE
          LET userData == ReadUser(db0, written, userId, pick[i])
          IN  IF ctx.courseId \notin DOMAIN userData.courses
              THEN RecordUserWrites(studentDetails, i + 1, db0, written, pick, ctx)
              ELSE
                LET courseData ==
                      ApplyAttendance(userData.courses[ctx.courseId], student,
                                      ctx.currentDate, ctx.batchId,
                                      ctx.isNewDateRecord, ctx.hasExisting,
                                      ctx.existingDetails)
                    doc == [userData EXCEPT !.courses[ctx.courseId] = courseData]
                IN  RecordUserWrites(studentDetails, i + 1, db0,
                                     Append(written, [userId |-> userId, doc |-> doc,
                                                      entry |-> i]),
                                     pick, ctx)

\* an upsert of the attendance record that never rejects
UpsertRejected_Swallowed(failed) == FALSE

\* await docRef.update(...) / await docRef.set(...) rejecting: write 0 of the
\* request
UpsertRejected(failed) == 0 \in failed

\* the handler from the document-id choice on, once validation has passed:
\* the three collections it leaves behind and its response.  failed holds
\* the writes the store rejects: 0 is the upsert of the attendance record,
\* whose rejection is thrown to the catch block before anything else is
\* written; i > 0 is the user_manage write of entry i of studentDetails,
\* whose rejection surfaces at Promise.all, before the roster batch is
\* committed
RecordAttendanceWrite(db, courseId, batchId, studentDetails, providedDocumentId, pick, failed) ==
  LET presentStudents ==
        LET P(st) == st.status = "Present" IN Count(studentDetails, P)
      documentId == IF providedDocumentId # NoDoc THEN providedDocumentId
                    ELSE FormatDate(db.today) \o batchId
      currentDate == IF providedDocumentId # NoDoc /\ Len(DatePart(providedDocumentId)) = 3
                     THEN ParseDate(DatePart(providedDocumentId))
                     ELSE db.today
      isFirstAttendanceForDay == IsFirstAttendanceForDay(db.attendance, batchId, documentId)
      docExists == documentId \in DOMAIN db.attendance
      existingDetails == IF docExists THEN db.attendance[documentId].studentDetails ELSE <<>>
      isNewDateRecord == IF docExists THEN FALSE ELSE isFirstAttendanceForDay
      record == [courseId |-> courseId, batchId |-> batchId,
                 totalStudents |-> Len(studentDetails),
                 presentStudents |-> presentStudents,
                 absentStudents |-> Len(studentDetails) - presentStudents,
                 studentDetails |-> StoredDetails(studentDetails)]
      statusMap == StatusMap(studentDetails)
      enrolledTrainees == db.trainees[batchId]
      updatedTrainees ==
        [n \in 1..Len(enrolledTrainees) |->
           UpdatedTrainee(enrolledTrainees[n], statusMap, isNewDateRecord,
                          docExists, existingDetails)]
      ctx == [courseId |-> courseId, batchId |-> batchId,
              currentDate |-> currentDate, isNewDateRecord |-> isNewDateRecord,
              hasExisting |-> docExists, existingDetails |-> existingDetails]
      written == RecordUserWrites(studentDetails, 1, db.user_manage, <<>>, pick, ctx)
      Landed(w) == w.entry \notin failed
      rejected == \E n \in 1..Len(written) : written[n].entry \in failed
  IN  IF UpsertRejected(failed)
      THEN [attendance |-> db.attendance, user_manage |-> db.user_manage,
            trainees |-> db.trainees, response |-> Reply(500)]
      ELSE
      [attendance |-> (documentId :> record) @@ db.attendance,
       user_manage |-> ApplyWrites(db.user_manage, SelectSeq(written, Landed)),
       trainees |-> IF rejected THEN db.trainees
                    ELSE [db.trainees EXCEPT ![batchId] = updatedTrainees],
       response |-> Reply(IF rejected THEN 500 ELSE IF docExists THEN 200 ELSE 201)]

\* a validation that finds every student enrolled
InvalidStudents_None(studentDetails, enrolledTraineeIds) == <<>>

\* studentDetails.filter(student => !enrolledTraineeIds.has(student.studentId))
InvalidStudents(studentDetails, enrolledTraineeIds) ==
  LET NotEnrolled(st) == st.studentId \notin enrolledTraineeIds
  IN  Filter(studentDetails, NotEnrolled)

\* the whole handler on the store db, the user_manage writes of the entries
\* in failed being rejected
RecordAttendanceWith(db, courseId, batchId, studentDetails, providedDocumentId, pick, failed) ==
  LET enrolledTraineeIds ==
        {db.trainees[batchId][n].userId : n \in 1..Len(db.trainees[batchId])}
      invalidStudents == InvalidStudents(studentDetails, enrolledTraineeIds)
      baseDocumentId == <<batchId[1], batchId[2], "25">>
      suffix == batchId[Len(batchId)]
      Fail(reply) ==
        [attendance |-> db.attendance, user_manage |-> db.user_manage,
         trainees |-> db.trainees, response |-> reply]
  IN  IF courseId \notin db.courses THEN Fail(Reply(404))
      ELSE IF batchId \notin DOMAIN db.trainees THEN Fail(Reply(404))
      ELSE IF invalidStudents # <<>>
      THEN Fail([status |-> 400,
                 invalidStudents |->
                   [n \in 1..Len(invalidStudents) |-> invalidStudents[n].studentId]])
      ELSE IF baseDocumentId \notin DOMAIN db.batches THEN Fail(Reply(404))
      ELSE IF batchId \notin DOMAIN db.batches[baseDocumentId]
      THEN \* the suffix scan assigns the matching key to the const batchId,
           \* which throws; the catch block answers 500
           IF \E key \in DOMAIN db.batches[baseDocumentId] :
                Len(key) > 1 /\ db.batches[baseDocumentId][key].suffix = suffix
           THEN Fail(Reply(500))
           ELSE Fail(Reply(404))
      ELSE RecordAttendanceWrite(db, courseId, batchId, studentDetails,
                                 providedDocumentId, pick, failed)

\* the whole handler on the store db, every write succeeding
RecordAttendanceOn(db, courseId, batchId, studentDetails, providedDocumentId, pick) ==
  RecordAttendanceWith(db, courseId, batchId, studentDetails, providedDocumentId, pick, {})

(***************************************************************************)
(* DeleteAttendance: DELETE /attendance/:recordId                          *)
(***************************************************************************)
\* one element of trainees.map(...): the roster counters reversed
ReversedTrainee(trainee, studentStatusMap) ==
  IF trainee.userId \notin DOMAIN studentStatusMap THEN trainee
  ELSE
    LET t0 == [trainee EXCEPT !.totalPresent = Num(@), !.totalAbsent = Num(@)]
    IN  IF studentStatusMap[trainee.userId] = "Present"
        THEN [t0 EXCEPT !.totalPresent = Max(0, @ - 1)]
        ELSE [t0 EXCEPT !.totalAbsent = Max(0, @ - 1)]

\* the courses.{courseId} fields the handler computes for one student
ReverseAttendance(courseData, student, hasDate, recordDate) ==
  LET isPresent == student.status = "Present"
      c0 == [courseData EXCEPT !.totalPresent = Num(@), !.totalAbsent = Num(@)]
      c1 == IF isPresent
            THEN [c0 EXCEPT !.totalPresent = Max(0, @ - 1)]
            ELSE [c0 EXCEPT !.totalAbsent = Max(0, @ - 1)]
      OtherDay(entry) == ~SameDay(entry.date, recordDate)
      c2 == IF hasDate
            THEN [c1 EXCEPT !.attendanceHistory = Filter(@, OtherDay)]
            ELSE c1
  IN  [c2 EXCEPT !.attendanceRate = AttendanceRate(c2.totalPresent, c2.totalAbsent)]

RECURSIVE DeleteUserWrites(_, _, _, _, _, _)
\* for (const student of recordData.studentDetails) { ... }
DeleteUserWrites(studentDetails, i, db0, written, pick, ctx) ==
  IF i > Len(studentDetails) THEN written
  ELSE
    LET student == studentDetails[i]
        userId == student.studentId
    IN  IF userId \notin DOMAIN db0
        THEN DeleteUserWrites(studentDetails, i + 1, db0, written, pick, ctx)
        ELSE
          LET userData == ReadUser(db0, written, userId, pick[i])
          IN  IF ctx.courseId \notin DOMAIN userData.courses
              THEN DeleteUserWrites(studentDetails, i + 1, db0, written, pick, ctx)
              ELSE
                LET courseData ==
                      ReverseAttendance(userData.courses[ctx.courseId], student,
                                        ctx.hasDate, ctx.recordDate)
                    doc == [userData EXCEPT !.courses[ctx.courseId] = courseData]
                IN  DeleteUserWrites(studentDetails, i + 1, db0,
                                     Append(written, [userId |-> userId, doc |-> doc]),
                                     pick, ctx)

\* the whole handler on the store db
\* DELETE /attendance/:recordId on the store db.  failed names the write the
\* store rejects: "trainees" (the roster update), a trainee id (the update
\* of that trainee's user document), "attendance" (the delete of the
\* record), "none" if every write succeeds.  A rejected write throws at the
\* await that waits for it; the writes before it have been applied, the
\* user updates started with it land, the catch answers 500.
DeleteAttendanceWith(db, recordId, pick, failed) ==
  IF recordId \notin DOMAIN db.attendance
  THEN [attendance |-> db.attendance, user_manage |-> db.user_manage,
        trainees |-> db.trainees, response |-> Reply(404)]
  ELSE
    LET recordData == db.attendance[recordId]
        batchId == recordData.batchId
        hasDate == Len(DatePart(recordId)) = 3
        recordDate == IF hasDate THEN ParseDate(DatePart(recordId)) ELSE db.today
        studentStatusMap == StatusMap(recordData.studentDetails)
        ctx == [courseId |-> recordData.courseId, hasDate |-> hasDate,
                recordDate |-> recordDate]
        written == DeleteUserWrites(recordData.studentDetails, 1, db.user_manage,
                                    <<>>, pick, ctx)
        Landed(w) == w.userId # failed
        rosterRejected == failed = "trainees" /\ batchId \in DOMAIN db.trainees
        userRejected == \E n \in 1..Len(written) : written[n].userId = failed
    IN  IF rosterRejected
        THEN [attendance |-> db.attendance, user_manage |-> db.user_manage,
              trainees |-> db.trainees, response |-> Reply(500)]
        ELSE
          [trainees |->
             IF batchId \in DOMAIN db.trainees
             THEN [db.trainees EXCEPT ![batchId] =
                     [n \in 1..Len(@) |-> ReversedTrainee(@[n], studentStatusMap)]]
             ELSE db.trainees,
           user_manage |-> ApplyWrites(db.user_manage, SelectSeq(written, Landed)),
           attendance |->
             IF userRejected \/ failed = "attendance" THEN db.attendance
             ELSE [id \in DOMAIN db.attendance \ {recordId} |-> db.attendance[id]],
           response |->
             Reply(IF userRejected \/ failed = "attendance" THEN 500 ELSE 200)]

\* the handler on the store db, every write succeeding
DeleteAttendanceOn(db, recordId, pick) ==
  DeleteAttendanceWith(db, recordId, pick, "none")

(***************************************************************************)
(* The actions: one request, handled to its response.                      *)
(***************************************************************************)
\* the store as the attendance handlers see it
DB ==
  [courses |-> courses, batches |-> batches, trainees |-> trainees,
   attendance |-> attendance, user_manage |-> user_manage, today |-> today]

Handled(op) ==
  /\ nOps' = nOps + 1
  /\ lastReq' = op
  /\ inFlight' = inFlight
  /\ config' = config
  /\ role_permissions' = role_permissions

RecordAttendance(courseId, batchId, studentDetails, providedDocumentId, pick) ==
  LET r == RecordAttendanceOn(DB, courseId, batchId, studentDetails,
                              providedDocumentId, pick)
  IN  /\ Handled("RecordAttendance")
      /\ attendance' = r.attendance
      /\ user_manage' = r.user_manage
      /\ trainees' = r.trainees
      /\ response' = r.response
      /\ UNCHANGED <<courses, batches, assignments, enrollments, payment_orders, today>>

DeleteAttendance(recordId, pick) ==
  LET r == DeleteAttendanceOn(DB, recordId, pick)
  IN  /\ Handled("DeleteAttendance")
      /\ attendance' = r.attendance
      /\ user_manage' = r.user_manage
      /\ trainees' = r.trainees
      /\ response' = r.response
      /\ UNCHANGED <<courses, batches, assignments, enrollments, payment_orders, today>>

(***************************************************************************)
(* Assignments: a document per (date, batch) holds one field per           *)
(* assignment name; an assignment holds its submissions.                   *)
(***************************************************************************)
AssignmentNames == {"quiz1", "quiz2"}

\* percentages are summed as exact fractions [num, den]
FracAdd(f, num, den) ==
  [num |-> f.num * den + num * f.den, den |-> f.den * den]

RECURSIVE TotalScore(_, _)
\* history.reduce((sum, a) => totalMarks === 0 ? sum
\*                            : sum + (score / totalMarks) * 100, 0)
TotalScore(history, i) ==
  IF i > Len(history) THEN [num |-> 0, den |-> 1]
  ELSE IF history[i].totalMarks = 0 THEN TotalScore(history, i + 1)
  ELSE FracAdd(TotalScore(history, i + 1), history[i].score * 100,
               history[i].totalMarks)

\* Math.round(totalScore / n) of the fraction totalScore, n > 0
RoundDiv(f, n) == (2 * f.num + f.den * n) \div (2 * f.den * n)

\* history.length > 0 ? Math.round(totalScore / history.length) : 0
AverageScore(history) ==
  IF Len(history) > 0 THEN RoundDiv(TotalScore(history, 1), Len(history)) ELSE 0

\* the lookup that finds no earlier submission
ExistingSubmission_NotFound(submissions, traineeId) == 0

\* submissions.find(sub => sub.traineeId === traineeId): 0 if absent
ExistingSubmission(submissions, traineeId) ==
  LET Is(sub) == sub.traineeId = traineeId IN FindIndex(submissions, Is)

\* the lookup that finds no entry
HistoryIndex_NotFound(assignmentHistory, assignmentId) == 0

\* assignmentHistory.findIndex(entry => entry.assignmentId === assignmentId)
HistoryIndex(assignmentHistory, assignmentId) ==
  LET Is(entry) == entry.assignmentId = assignmentId
  IN  FindIndex(assignmentHistory, Is)

\* the courses.{courseId} fields SubmitAssignment computes
ApplyAssignmentScore(courseData, assignmentEntry) ==
  LET k == HistoryIndex(courseData.assignmentHistory, assignmentEntry.assignmentId)
      history == IF k # 0
                 THEN [courseData.assignmentHistory EXCEPT ![k] = assignmentEntry]
                 ELSE Append(courseData.assignmentHistory, assignmentEntry)
  IN  [courseData EXCEPT !.assignmentHistory = history,
                         !.averageScore = AverageScore(history)]

\* POST /assignments/:documentId/:assignmentName/submit on the store db;
\* failed names the collection whose write is rejected, "none" if no write is
SubmitAssignmentWith(db, documentId, assignmentName, traineeId, score, failed) ==
  LET Fail(status) ==
        [assignments |-> db.assignments, trainees |-> db.trainees,
         user_manage |-> db.user_manage, response |-> Reply(status)]
  IN  IF score = Undef THEN Fail(400)
      ELSE IF documentId \notin DOMAIN db.assignments THEN Fail(404)
      ELSE IF assignmentName \notin DOMAIN db.assignments[documentId].fields THEN Fail(404)
      ELSE
        LET assignment == db.assignments[documentId].fields[assignmentName]
            submissions == assignment.submissions
        IN  IF ExistingSubmission(submissions, traineeId) # 0 THEN Fail(400)
            ELSE IF failed = "assignments" THEN Fail(500)
            ELSE
              LET updatedSubmissions ==
                    Append(submissions, [traineeId |-> traineeId, score |-> score])
                  scoreEntry ==
                    [assignmentName |-> assignmentName, assignmentId |-> documentId,
                     score |-> ToString(score)]
                  updatedTrainees ==
                    IF assignment.batchId \in DOMAIN db.trainees
                    THEN [db.trainees EXCEPT ![assignment.batchId] =
                            [n \in 1..Len(@) |->
                               IF @[n].userId = traineeId
                               THEN [@[n] EXCEPT !.scores = Append(@, scoreEntry)]
                               ELSE @[n]]]
                    ELSE db.trainees
                  assignmentEntry ==
                    [assignmentId |-> documentId, assignmentName |-> assignmentName,
                     totalMarks |-> assignment.totalMarks, score |-> score]
                  hasCourse ==
                    /\ traineeId \in DOMAIN db.user_manage
                    /\ assignment.courseId \in DOMAIN db.user_manage[traineeId].courses
                  rosterRejected ==
                    failed = "trainees" /\ assignment.batchId \in DOMAIN db.trainees
                  userRejected == failed = "user_manage" /\ hasCourse
              IN  [assignments |->
                     [db.assignments EXCEPT
                        ![documentId].fields[assignmentName].submissions = updatedSubmissions],
                   trainees |-> IF rosterRejected THEN db.trainees ELSE updatedTrainees,
                   user_manage |->
                     IF hasCourse /\ ~rosterRejected /\ ~userRejected
                     THEN [db.user_manage EXCEPT
                             ![traineeId].courses[assignment.courseId] =
                                ApplyAssignmentScore(@, assignmentEntry)]
                     ELSE db.user_manage,
                   response |-> Reply(IF rosterRejected THEN 500 ELSE 200)]

\* the handler on the store db, every write succeeding
SubmitAssignmentOn(db, documentId, assignmentName, traineeId, score) ==
  SubmitAssignmentWith(db, documentId, assignmentName, traineeId, score, "none")

\* the courses.{courseId} fields DeleteAssignment computes: entries whose
\* assignmentId is the document id are dropped
ReverseAssignmentScore(courseData, documentId) ==
  LET Keep(entry) == entry.assignmentId # documentId
      updatedHistory == Filter(courseData.assignmentHistory, Keep)
  IN  [courseData EXCEPT !.assignmentHistory = updatedHistory,
                         !.averageScore = AverageScore(updatedHistory)]

RECURSIVE DeleteSubmissionWrites(_, _, _, _, _, _)
\* try { for (const submission of submissions) { ... await userRef.update(...) } }
\* catch { }: the update of the user failed is rejected, which leaves the loop
DeleteSubmissionWrites(submissions, i, users, courseId, documentId, failed) ==
  IF i > Len(submissions) THEN users
  ELSE
    LET traineeId == submissions[i].traineeId
        skip ==
          \/ traineeId \notin DOMAIN users
          \/ courseId \notin DOMAIN users[traineeId].courses
          \/ users[traineeId].courses[courseId].assignmentHistory = <<>>
    IN  IF skip
        THEN DeleteSubmissionWrites(submissions, i + 1, users, courseId, documentId, failed)
        ELSE IF traineeId = failed THEN users
        ELSE DeleteSubmissionWrites(
               submissions, i + 1,
               [users EXCEPT ![traineeId].courses[courseId] =
                  ReverseAssignmentScore(@, documentId)],
               courseId, documentId, failed)

\* a document in which no key counts as an assignment field
AssignmentFields_None(documentData) == {}

\* Object.keys(documentData) without createdAt, updatedAt and batchId, which
\* the model keeps outside fields
AssignmentFields(documentData) == DOMAIN documentData.fields

\* DELETE /assignments/:documentId/:assignmentName on the store db; failed
\* names the write that is rejected: "assignments" the delete of the document
\* or field, a trainee id the user_manage update of that trainee, "none" none
\* a handler that also removes the roster score entries of the assignment
RosterAfterDeleteAssignment_Scrubbed(rosters, documentId, assignmentName) ==
  [b \in DOMAIN rosters |->
     [n \in 1..Len(rosters[b]) |->
        LET Others(e) == ~(e.assignmentId = documentId /\ e.assignmentName = assignmentName)
        IN  [rosters[b][n] EXCEPT !.scores = SelectSeq(@, Others)]]]

\* the handler has no reference to the trainees collection: the roster
\* documents are what they were
RosterAfterDeleteAssignment(rosters, documentId, assignmentName) == rosters

DeleteAssignmentWith(db, documentId, assignmentName, failed) ==
  LET Fail(status) ==
        [assignments |-> db.assignments, trainees |-> db.trainees,
         user_manage |-> db.user_manage, response |-> Reply(status)]
  IN  IF documentId \notin DOMAIN db.assignments THEN Fail(404)
      ELSE IF assignmentName \notin DOMAIN db.assignments[documentId].fields THEN Fail(404)
      ELSE
        LET documentData == db.assignments[documentId]
            assignmentFields == AssignmentFields(documentData)
            assignmentDetails == documentData.fields[assignmentName]
        IN  IF failed = "assignments" THEN Fail(500)
            ELSE
            [assignments |->
               IF assignmentFields = {assignmentName}
               THEN [d \in DOMAIN db.assignments \ {documentId} |-> db.assignments[d]]
               ELSE [db.assignments EXCEPT ![documentId].fields =
                       [a \in DOMAIN @ \ {assignmentName} |-> @[a]]],
             trainees |-> RosterAfterDeleteAssignment(db.trainees, documentId, assignmentName),
             user_manage |->
               DeleteSubmissionWrites(assignmentDetails.submissions, 1, db.user_manage,
                                      assignmentDetails.courseId, documentId, failed),
             response |-> Reply(200)]

\* the handler on the store db, every write succeeding
DeleteAssignmentOn(db, documentId, assignmentName) ==
  DeleteAssignmentWith(db, documentId, assignmentName, "none")

\* POST /assignments: the assignment field is written without submissions
CreateAssignmentOn(db, assignmentName, courseId, batchId, totalMarks, assignmentDate) ==
  LET documentId == FormatDate(assignmentDate) \o batchId
      assignmentData ==
        [courseId |-> courseId, batchId |-> batchId, totalMarks |-> totalMarks,
         submissions |-> <<>>]
  IN  [assignments |->
         IF documentId \in DOMAIN db.assignments
         THEN [db.assignments EXCEPT ![documentId].fields =
                 (assignmentName :> assignmentData) @@ @]
         ELSE (documentId :> [batchId |-> batchId,
                              fields |-> (assignmentName :> assignmentData)])
                @@ db.assignments,
       trainees |-> db.trainees,
       user_manage |-> db.user_manage,
       response |-> Reply(201)]

\* the store as the assignment handlers see it
AsgDB ==
  [assignments |-> assignments, trainees |-> trainees, user_manage |-> user_manage]

AssignmentRequest(op, r) ==
  /\ Handled(op)
  /\ assignments' = r.assignments
  /\ trainees' = r.trainees
  /\ user_manage' = r.user_manage
  /\ response' = r.response
  /\ UNCHANGED <<courses, batches, attendance, enrollments, payment_orders, today>>

SubmitAssignment(documentId, assignmentName, traineeId, score) ==
  AssignmentRequest("SubmitAssignment",
                    SubmitAssignmentOn(AsgDB, documentId, assignmentName, traineeId, score))

DeleteAssignment(documentId, assignmentName) ==
  AssignmentRequest("DeleteAssignment",
                    DeleteAssignmentOn(AsgDB, documentId, assignmentName))

CreateAssignment(assignmentName, courseId, batchId, totalMarks, assignmentDate) ==
  AssignmentRequest("CreateAssignment",
                    CreateAssignmentOn(AsgDB, assignmentName, courseId, batchId,
                                       totalMarks, assignmentDate))

(***************************************************************************)
(* Batches: a base document holds one field per batch, tagged with its     *)
(* suffix.  The fields that are not batches (courseId, courseName, status, *)
(* createdAt, updatedAt) have no suffix attribute and are left out.        *)
(***************************************************************************)
\* `${day}${month}` of a Date, both padded to two digits
DayMonth(d) == Pad2(d.date) \o Pad2(d.month + 1)

\* displayBatchKey of POST /batches
DisplayBatchKey(documentId, suffix, trainingStartDate, internshipEndDate) ==
  <<"B", documentId[2], DayMonth(trainingStartDate), DayMonth(internshipEndDate), suffix>>

\* POST /batches on the batches collection
CreateBatchOn(coll, documentId, suffix, trainingStartDate, internshipEndDate) ==
  LET displayBatchKey ==
        DisplayBatchKey(documentId, suffix, trainingStartDate, internshipEndDate)
  IN  [batches |->
         IF documentId \in DOMAIN coll
         THEN [coll EXCEPT ![documentId] = (displayBatchKey :> [suffix |-> suffix]) @@ @]
         ELSE (documentId :> (displayBatchKey :> [suffix |-> suffix])) @@ coll,
       status |-> 201]

\* the keys the scan Object.keys(batchData).forEach(...) accepts: the key
\* contains a '-' and the field's suffix attribute is the requested suffix
MatchingKeys(batchData, suffix) ==
  {key \in DOMAIN batchData : Len(key) > 1 /\ batchData[key].suffix = suffix}

\* the scan keeps the last key it accepts; the order in which the store
\* lists the fields decides which one that is
LastMatches(batchData, suffix) ==
  IF MatchingKeys(batchData, suffix) = {} THEN {NoDoc}
  ELSE MatchingKeys(batchData, suffix)

\* GET /batches/:batchId on the batches collection; batchKey is the key the
\* scan ends with
GetBatchOn(coll, batchId, batchKey) ==
  LET parts == batchId
      baseDocumentId == SubSeq(parts, 1, IF Len(parts) < 3 THEN Len(parts) ELSE 3)
      suffix == parts[Len(parts)]
      NotFound == [status |-> 404, documentId |-> NoDoc, batchKey |-> NoDoc, suffix |-> ""]
  IN  IF baseDocumentId \notin DOMAIN coll THEN NotFound
      ELSE IF batchKey = NoDoc THEN NotFound
      ELSE [status |-> 200, documentId |-> baseDocumentId, batchKey |-> batchKey,
            suffix |-> coll[baseDocumentId][batchKey].suffix]

\* DELETE /batches/:documentId/:suffix on the batches collection
DeleteBatchOn(coll, documentId, suffix, batchKey) ==
  IF documentId \notin DOMAIN coll THEN [batches |-> coll, status |-> 404]
  ELSE IF batchKey = NoDoc THEN [batches |-> coll, status |-> 404]
  ELSE
    LET batchData == coll[documentId]
        batchFields == {key \in DOMAIN batchData : Len(key) > 1}
    IN  [batches |->
           IF batchFields = {batchKey}
           THEN [d \in DOMAIN coll \ {documentId} |-> coll[d]]
           ELSE [coll EXCEPT ![documentId] =
                   [key \in DOMAIN @ \ {batchKey} |-> @[key]]],
         status |-> 200]

BatchRequest(op, coll, status) ==
  /\ Handled(op)
  /\ batches' = coll
  /\ response' = Reply(status)
  /\ UNCHANGED <<courses, trainees, attendance, user_manage, assignments,
                 enrollments, payment_orders, today>>

CreateBatch(documentId, suffix, trainingStartDate, internshipEndDate) ==
  LET r == CreateBatchOn(batches, documentId, suffix, trainingStartDate, internshipEndDate)
  IN  BatchRequest("CreateBatch", r.batches, r.status)

GetBatch(batchId, batchKey) ==
  BatchRequest("GetBatch", batches, GetBatchOn(batches, batchId, batchKey).status)

DeleteBatch(documentId, suffix, batchKey) ==
  LET r == DeleteBatchOn(batches, documentId, suffix, batchKey)
  IN  BatchRequest("DeleteBatch", r.batches, r.status)

(***************************************************************************)
(* Enrollment: verifyPayment (CompletePayment) and addManualPayment, and   *)
(* the handlers that write a user's course fields directly.                *)
(***************************************************************************)
Secret == "key_secret"

\* crypto.createHmac("sha256", secret).update(orderId + "|" + paymentId)
\* .digest("hex"): distinct inputs give distinct digests
Hmac(secret, orderId, paymentId) == <<secret, orderId, paymentId>>

\* FieldValue.arrayUnion(element): appended unless an equal element is there
ArrayUnion(array, element) ==
  IF \E i \in 1..Len(array) : array[i] = element THEN array
  ELSE Append(array, element)

\* the roster write shared by verifyPayment and addManualPayment; a request
\* is handled at instant nOps + 1
RosterWithTrainee(batchId, userId) ==
  LET entry == NewRosterEntry(userId, nOps + 1)
  IN  IF batchId \notin DOMAIN trainees
      THEN (batchId :> <<entry>>) @@ trainees
      ELSE [trainees EXCEPT ![batchId] = ArrayUnion(@, entry)]

\* userRef.update({[`courses.${courseId}`]: {...}}): the whole course object
\* is replaced
UserWithCourse(userId, courseId, courseData) ==
  [user_manage EXCEPT ![userId].courses = (courseId :> courseData) @@ @]

\* a comparison that accepts every signature
IsAuthentic_Always(expectedSignature, razorpay_signature) == TRUE

\* expectedSignature === razorpay_signature
IsAuthentic(expectedSignature, razorpay_signature) ==
  expectedSignature = razorpay_signature

VerifyPayment(razorpay_order_id, razorpay_payment_id, razorpay_signature) ==
  LET expectedSignature == Hmac(Secret, razorpay_order_id, razorpay_payment_id)
      isAuthentic == IsAuthentic(expectedSignature, razorpay_signature)
      orderData == payment_orders[razorpay_order_id]
      enrollmentData ==
        [userId |-> orderData.userId, courseId |-> orderData.courseId,
         batchId |-> orderData.batchId, paymentId |-> razorpay_payment_id,
         orderId |-> razorpay_order_id, status |-> "completed"]
  IN  /\ Handled("verifyPayment")
      /\ IF ~isAuthentic
         THEN /\ response' = Reply(400)
              /\ UNCHANGED <<enrollments, trainees, payment_orders, user_manage>>
         ELSE IF razorpay_order_id \notin DOMAIN payment_orders
         THEN /\ response' = Reply(404)
              /\ UNCHANGED <<enrollments, trainees, payment_orders, user_manage>>
         ELSE /\ enrollments' = Append(enrollments, enrollmentData)
              /\ trainees' = RosterWithTrainee(orderData.batchId, orderData.userId)
              /\ payment_orders' =
                   [payment_orders EXCEPT ![razorpay_order_id].status = "paid",
                                          ![razorpay_order_id].paymentId = razorpay_payment_id]
              /\ IF orderData.courseId \in courses
                 THEN IF orderData.userId \in DOMAIN user_manage
                      THEN /\ user_manage' =
                                UserWithCourse(orderData.userId, orderData.courseId,
                                               NewCourseData(orderData.batchId))
                           /\ response' = Reply(200)
                      ELSE \* update of a missing document throws
                           /\ user_manage' = user_manage
                           /\ response' = Reply(500)
                 ELSE /\ user_manage' = user_manage
                      /\ response' = Reply(200)
      /\ UNCHANGED <<courses, batches, attendance, assignments, today>>

AddManualPayment(userId, courseId, batchId) ==
  LET enrollmentData ==
        [userId |-> userId, courseId |-> courseId, batchId |-> batchId,
         paymentId |-> "manual", orderId |-> <<"MANUAL", nOps + 1>>,
         status |-> "completed"]
  IN  /\ Handled("addManualPayment")
      /\ enrollments' = Append(enrollments, enrollmentData)
      /\ trainees' = RosterWithTrainee(batchId, userId)
      /\ IF courseId \in courses
         THEN IF userId \in DOMAIN user_manage
              THEN /\ user_manage' = UserWithCourse(userId, courseId, NewCourseData(batchId))
                   /\ response' = Reply(200)
              ELSE /\ user_manage' = user_manage
                   /\ response' = Reply(500)
         ELSE /\ user_manage' = user_manage
              /\ response' = Reply(200)
      /\ UNCHANGED <<courses, batches, attendance, assignments, payment_orders, today>>

\* PUT attendance rate of one course of one user
UpdateAttendanceRate(userId, courseId, attendanceRate) ==
  /\ Handled("updateAttendanceRate")
  /\ IF attendanceRate = Undef \/ attendanceRate < 0 \/ attendanceRate > 100
     THEN response' = Reply(400) /\ user_manage' = user_manage
     ELSE IF userId \notin DOMAIN user_manage
     THEN response' = Reply(404) /\ user_manage' = user_manage
     ELSE IF courseId \notin DOMAIN user_manage[userId].courses
     THEN response' = Reply(404) /\ user_manage' = user_manage
     ELSE /\ user_manage' =
               [user_manage EXCEPT ![userId].courses[courseId].attendanceRate = attendanceRate]
          /\ response' = Reply(200)
  /\ UNCHANGED <<courses, batches, trainees, attendance, assignments, enrollments,
                 payment_orders, today>>

\* add or replace the course details of an existing trainee; attendanceRate
\* and averageScore are Undef when the body omits them
UpdateTraineeCourseDetails(userId, courseId, batchId, attendanceRate, averageScore) ==
  LET courseDetails ==
        [batchId |-> batchId,
         attendanceRate |-> IF attendanceRate # Undef THEN attendanceRate ELSE 0,
         averageScore |-> IF averageScore # Undef THEN averageScore ELSE 0,
         totalPresent |-> Undef, totalAbsent |-> Undef,
         attendanceHistory |-> <<>>, assignmentHistory |-> <<>>]
  IN  /\ Handled("updateTraineeCourseDetails")
      /\ IF userId \notin DOMAIN user_manage
         THEN response' = Reply(404) /\ user_manage' = user_manage
         ELSE /\ user_manage' = UserWithCourse(userId, courseId, courseDetails)
              /\ response' = Reply(200)
      /\ UNCHANGED <<courses, batches, trainees, attendance, assignments, enrollments,
                     payment_orders, today>>

\* the server clock passes midnight
Tick ==
  /\ today.date < MaxDay
  /\ today' = [today EXCEPT !.date = @ + 1]
  /\ UNCHANGED <<courses, batches, trainees, attendance, user_manage, assignments,
                 enrollments, payment_orders, lastReq, response, nOps, inFlight,
                 config, role_permissions>>

(***************************************************************************)
(* The store after the trainees of a batch have enrolled: every trainee    *)
(* has a roster entry and a user document; a user document may lack the    *)
(* course (an enrollment whose course lookup failed).                      *)
(***************************************************************************)
NoReq == "none"

Roster0 ==
  LET order == CHOOSE sq \in [1..Cardinality(Trainees) -> Trainees] :
                 \A u \in Trainees : \E n \in DOMAIN sq : sq[n] = u
  IN  [n \in DOMAIN order |-> NewRosterEntry(order[n], 0)]

Users0(holders) ==
  [u \in Trainees |->
     [courses |-> IF u \in holders THEN (Course1 :> NewCourseData(Batch1))
                  ELSE <<>>]]

\* the order createOrder stored for a trainee who pays (again) for the course
Orders0 ==
  ("order_1" :> [userId |-> "t1", courseId |-> Course1, batchId |-> Batch1,
                 status |-> "created", paymentId |-> ""])

InitEnrolled ==
  /\ courses = {Course1}
  /\ batches = (BaseDoc1 :> (Batch1 :> [suffix |-> "A"]))
  /\ trainees = (Batch1 :> Roster0)
  /\ attendance = <<>>
  /\ \E holders \in {Trainees, Trainees \ {"t2"}} : user_manage = Users0(holders)
  /\ assignments = <<>>
  /\ enrollments = <<>>
  /\ payment_orders = Orders0
  /\ today = DayOf(1)
  /\ lastReq = NoReq
  /\ response = Reply(0)
  /\ nOps = 0
  /\ inFlight = Idle
  /\ config = Config0
  /\ role_permissions = Roles0

\* a request with a list of at most MaxListed entries
ShortInputs == SeqsUpTo(DetailEntries, MaxListed)

RecordAttendanceStep ==
  /\ nOps < MaxOps
  /\ \E studentDetails \in ShortInputs, providedDocumentId \in ProvidedIds \cup {NoDoc} :
       \E pick \in Picks(studentDetails) :
         RecordAttendance(Course1, Batch1, studentDetails, providedDocumentId, pick)

\* the reads of a delete race as those of a create do
DeletePicks(recordId) ==
  IF recordId \in DOMAIN attendance THEN Picks(attendance[recordId].studentDetails)
  ELSE {<<>>}

DeleteAttendanceStep ==
  /\ nOps < MaxOps
  /\ \E recordId \in ProvidedIds :
       \E pick \in DeletePicks(recordId) :
         DeleteAttendance(recordId, pick)

NextAttendance ==
  \/ RecordAttendanceStep
  \/ DeleteAttendanceStep
  \/ Tick

SpecAttendance == InitEnrolled /\ [][NextAttendance]_vars

\* the rates a client sends
RateInputs == {0, 50, 100}

VerifyPaymentStep ==
  /\ nOps < MaxOps
  /\ \E o \in DOMAIN payment_orders, sig \in {Hmac(Secret, "order_1", "pay_1"), <<"forged">>} :
       VerifyPayment(o, "pay_1", sig)

AddManualPaymentStep ==
  /\ nOps < MaxOps
  /\ \E u \in Trainees : AddManualPayment(u, Course1, Batch1)

UpdateAttendanceRateStep ==
  /\ nOps < MaxOps
  /\ \E u \in Trainees, rate \in RateInputs : UpdateAttendanceRate(u, Course1, rate)

UpdateTraineeCourseDetailsStep ==
  /\ nOps < MaxOps
  /\ \E u \in Trainees, rate \in {Undef, 50} :
       UpdateTraineeCourseDetails(u, Course1, Batch1, rate, Undef)

NextAggregate ==
  \/ RecordAttendanceStep
  \/ DeleteAttendanceStep
  \/ VerifyPaymentStep
  \/ AddManualPaymentStep
  \/ UpdateAttendanceRateStep
  \/ UpdateTraineeCourseDetailsStep
  \/ Tick

SpecAggregate == InitEnrolled /\ [][NextAggregate]_vars

(***************************************************************************)
(* The store once assignments have been set: two assignments in the        *)
(* document of day 1 and one, without marks, in the document of day 2.     *)
(***************************************************************************)
AsgDoc(n) == FormatDate(DayOf(n)) \o Batch1

NewAssignment(totalMarks) ==
  [courseId |-> Course1, batchId |-> Batch1, totalMarks |-> totalMarks,
   submissions |-> <<>>]

Assignments0 ==
  (AsgDoc(1) :> [batchId |-> Batch1,
                 fields |-> [a \in AssignmentNames |-> NewAssignment(MaxScore)]])
  @@ (AsgDoc(2) :> [batchId |-> Batch1,
                    fields |-> ("quiz1" :> NewAssignment(0))])

InitAssigned ==
  /\ courses = {Course1}
  /\ batches = (BaseDoc1 :> (Batch1 :> [suffix |-> "A"]))
  /\ trainees = (Batch1 :> Roster0)
  /\ attendance = <<>>
  /\ \E holders \in {Trainees, Trainees \ {"t2"}} : user_manage = Users0(holders)
  /\ assignments = Assignments0
  /\ enrollments = <<>>
  /\ payment_orders = Orders0
  /\ today = DayOf(1)
  /\ lastReq = NoReq
  /\ response = Reply(0)
  /\ nOps = 0
  /\ inFlight = Idle
  /\ config = Config0
  /\ role_permissions = Roles0

AsgDocs == {AsgDoc(n) : n \in 1..MaxDay}

SubmitAssignmentStep ==
  /\ nOps < MaxOps
  /\ \E d \in AsgDocs, a \in AssignmentNames, t \in Trainees, score \in 0..MaxScore :
       SubmitAssignment(d, a, t, score)

DeleteAssignmentStep ==
  /\ nOps < MaxOps
  /\ \E d \in AsgDocs, a \in AssignmentNames : DeleteAssignment(d, a)

CreateAssignmentStep ==
  /\ nOps < MaxOps
  /\ \E a \in AssignmentNames, marks \in {0, MaxScore}, n \in 1..MaxDay :
       CreateAssignment(a, Course1, Batch1, marks, DayOf(n))

NextAssignment ==
  \/ SubmitAssignmentStep
  \/ DeleteAssignmentStep
  \/ CreateAssignmentStep

SpecAssignment == InitAssigned /\ [][NextAssignment]_vars

(***************************************************************************)
(* The store once a batch has been created through POST /batches: its key  *)
(* carries the training dates, and rosters exist under that key and under  *)
(* the short identifier base-suffix that GET /batches/:batchId answers.    *)
(***************************************************************************)
TrainingStart == [date |-> 4, month |-> ThisMonth - 1, year |-> ThisYear]

InternshipEnds == {[date |-> 30, month |-> 8, year |-> ThisYear], DayOf(MaxDay)}

LongBatch == DisplayBatchKey(BaseDoc1, "A", TrainingStart, [date |-> 30, month |-> 8, year |-> ThisYear])

Suffixes == {"A", "B"}

BaseDoc2 == <<"B", "FD", "25">>

\* the base documents a client names
BaseDocs0 == {BaseDoc1, BaseDoc2}

\* the batch identifiers a client sends
BatchIds == {Batch1, LongBatch, BaseDoc1 \o <<"B">>, BaseDoc2 \o <<"A">>}

InitBatch ==
  /\ courses = {Course1}
  /\ batches = CreateBatchOn(<<>>, BaseDoc1, "A", TrainingStart,
                             [date |-> 30, month |-> 8, year |-> ThisYear]).batches
  /\ trainees = (Batch1 :> Roster0) @@ (LongBatch :> Roster0)
  /\ attendance = <<>>
  /\ \E holders \in {Trainees, Trainees \ {"t2"}} : user_manage = Users0(holders)
  /\ assignments = <<>>
  /\ enrollments = <<>>
  /\ payment_orders = Orders0
  /\ today = DayOf(1)
  /\ lastReq = NoReq
  /\ response = Reply(0)
  /\ nOps = 0
  /\ inFlight = Idle
  /\ config = Config0
  /\ role_permissions = Roles0

CreateBatchStep ==
  /\ nOps < MaxOps
  /\ \E documentId \in BaseDocs0, suffix \in Suffixes, internshipEndDate \in InternshipEnds :
       CreateBatch(documentId, suffix, TrainingStart, internshipEndDate)

GetBatchStep ==
  /\ nOps < MaxOps
  /\ \E batchId \in BatchIds :
       LET baseDocumentId == SubSeq(batchId, 1, 3)
       IN  \E batchKey \in IF baseDocumentId \in DOMAIN batches
                           THEN LastMatches(batches[baseDocumentId], batchId[Len(batchId)])
                           ELSE {NoDoc} :
             GetBatch(batchId, batchKey)

DeleteBatchStep ==
  /\ nOps < MaxOps
  /\ \E documentId \in BaseDocs0, suffix \in Suffixes :
       \E batchKey \in IF documentId \in DOMAIN batches
                       THEN LastMatches(batches[documentId], suffix)
                       ELSE {NoDoc} :
         DeleteBatch(documentId, suffix, batchKey)

RecordForBatchStep ==
  /\ nOps < MaxOps
  /\ \E batchId \in BatchIds, studentDetails \in ShortInputs :
       \E pick \in Picks(studentDetails) :
         RecordAttendance(Course1, batchId, studentDetails, NoDoc, pick)

NextBatch ==
  \/ CreateBatchStep
  \/ GetBatchStep
  \/ DeleteBatchStep
  \/ RecordForBatchStep

SpecBatch == InitBatch /\ [][NextBatch]_vars

\* PUT /batches/:documentId/:suffix on the batches collection; oldBatchKey is
\* the key the scan ends with.  The field is stored under the key of the new
\* dates, the old field being deleted when the key changes.
UpdateBatchOn(coll, documentId, suffix, trainingStartDate, internshipEndDate, oldBatchKey) ==
  IF documentId \notin DOMAIN coll THEN [batches |-> coll, status |-> 404]
  ELSE IF oldBatchKey = NoDoc THEN [batches |-> coll, status |-> 404]
  ELSE
    LET newBatchKey ==
          DisplayBatchKey(documentId, suffix, trainingStartDate, internshipEndDate)
        kept == [key \in DOMAIN coll[documentId] \ {oldBatchKey} |-> coll[documentId][key]]
    IN  [batches |-> [coll EXCEPT ![documentId] = (newBatchKey :> [suffix |-> suffix]) @@ kept],
         status |-> 200]

UpdateBatch(documentId, suffix, trainingStartDate, internshipEndDate, oldBatchKey) ==
  LET r == UpdateBatchOn(batches, documentId, suffix, trainingStartDate,
                         internshipEndDate, oldBatchKey)
  IN  /\ Handled("UpdateBatch")
      /\ batches' = r.batches
      /\ response' = Reply(r.status)
      /\ UNCHANGED <<courses, trainees, attendance, user_manage, assignments, enrollments,
                     payment_orders, today>>

UpdateBatchStep ==
  /\ nOps < MaxOps
  /\ \E documentId \in BaseDocs0, suffix \in Suffixes, internshipEndDate \in InternshipEnds :
       \E oldBatchKey \in IF documentId \in DOMAIN batches
                          THEN LastMatches(batches[documentId], suffix)
                          ELSE {NoDoc} :
         UpdateBatch(documentId, suffix, TrainingStart, internshipEndDate, oldBatchKey)

NextSuffix ==
  \/ CreateBatchStep
  \/ UpdateBatchStep

SpecSuffix == InitBatch /\ [][NextSuffix]_vars

\* a request that may name a student who is not on the roster
RecordAnyoneStep ==
  /\ nOps < MaxOps
  /\ \E studentDetails \in ShortInputs \cup {<<[studentId |-> Outsider, status |-> "Present"]>>},
        providedDocumentId \in ProvidedIds \cup {NoDoc} :
       \E pick \in Picks(studentDetails) :
         RecordAttendance(Course1, Batch1, studentDetails, providedDocumentId, pick)

NextValidate ==
  \/ RecordAnyoneStep
  \/ DeleteAttendanceStep
  \/ Tick

SpecValidate == InitEnrolled /\ [][NextValidate]_vars

(***************************************************************************)
(* Requests during which the store rejects a write.                        *)
(***************************************************************************)
WriteFailures == {"none", "trainees", "user_manage"}

\* the user_manage writes of DeleteAssignment that may be rejected
DeleteFailures == {"none"} \cup Trainees

\* the reads of a request that observe none of its own writes
ZeroPick(studentDetails) == [i \in 1..Len(studentDetails) |-> 0]

SubmitAssignmentFailing(documentId, assignmentName, traineeId, score, failed) ==
  AssignmentRequest("SubmitAssignment",
                    SubmitAssignmentWith(AsgDB, documentId, assignmentName, traineeId,
                                         score, failed))

RecordAttendanceFailing(courseId, batchId, studentDetails, providedDocumentId, failed) ==
  LET r == RecordAttendanceWith(DB, courseId, batchId, studentDetails,
                                providedDocumentId, ZeroPick(studentDetails), failed)
  IN  /\ Handled("RecordAttendance")
      /\ attendance' = r.attendance
      /\ user_manage' = r.user_manage
      /\ trainees' = r.trainees
      /\ response' = r.response
      /\ UNCHANGED <<courses, batches, assignments, enrollments, payment_orders, today>>

DeleteAssignmentFailing(documentId, assignmentName, failed) ==
  AssignmentRequest("DeleteAssignment",
                    DeleteAssignmentWith(AsgDB, documentId, assignmentName, failed))

SubmitFailingStep ==
  /\ nOps < MaxOps
  /\ \E d \in AsgDocs, a \in AssignmentNames, t \in Trainees, score \in {0, MaxScore},
        failed \in WriteFailures :
       SubmitAssignmentFailing(d, a, t, score, failed)

RecordFailingStep ==
  /\ nOps < MaxOps
  /\ \E studentDetails \in ShortInputs, providedDocumentId \in ProvidedIds \cup {NoDoc} :
       \E failed \in SUBSET (1..Len(studentDetails)) :
         RecordAttendanceFailing(Course1, Batch1, studentDetails, providedDocumentId, failed)

DeleteFailingStep ==
  /\ nOps < MaxOps
  /\ \E d \in AsgDocs, a \in AssignmentNames, failed \in DeleteFailures :
       DeleteAssignmentFailing(d, a, failed)

NextFailure ==
  \/ SubmitFailingStep
  \/ RecordFailingStep
  \/ DeleteFailingStep

SpecFailure == InitAssigned /\ [][NextFailure]_vars

(***************************************************************************)
(* Attendance records taken, then deleted while the store rejects a write. *)
(***************************************************************************)
\* the writes of DeleteAttendance that may be rejected
UndoFailures == {"none", "trainees", "attendance"} \cup Trainees

DeleteAttendanceFailing(recordId, failed) ==
  LET r == DeleteAttendanceWith(DB, recordId,
                                IF recordId \in DOMAIN attendance
                                THEN ZeroPick(attendance[recordId].studentDetails)
                                ELSE <<>>,
                                failed)
  IN  /\ Handled("DeleteAttendance")
      /\ attendance' = r.attendance
      /\ user_manage' = r.user_manage
      /\ trainees' = r.trainees
      /\ response' = r.response
      /\ UNCHANGED <<courses, batches, assignments, enrollments, payment_orders, today>>

DeleteAttendanceFailingStep ==
  /\ nOps < MaxOps
  /\ \E recordId \in ProvidedIds, failed \in UndoFailures :
       DeleteAttendanceFailing(recordId, failed)

NextUndo ==
  \/ RecordAttendanceStep
  \/ DeleteAttendanceFailingStep

SpecUndo == InitEnrolled /\ [][NextUndo]_vars

(***************************************************************************)
(* Two RecordAttendance requests for one batch, on two dates, handled      *)
(* concurrently: each await of a handler lets the other handler run.  A    *)
(* request reads the roster and the attendance collection and upserts its  *)
(* record, reads the users it lists, has its user writes land, and commits *)
(* the roster array it computed from its first read.                       *)
(***************************************************************************)
\* the document a request of the race writes: request p is for day p
RaceDoc(p) == FormatDate(DayOf(p)) \o Batch1

\* what request q computes from the store snapshot db
RaceResult(q, db) ==
  RecordAttendanceOn(db, Course1, Batch1, q.studentDetails, q.documentId,
                     ZeroPick(q.studentDetails))

\* the users whose document request q updates, users being what it read
RaceWritten(q, users) ==
  {u \in DOMAIN users :
     /\ \E i \in 1..Len(q.studentDetails) : q.studentDetails[i].studentId = u
     /\ Course1 \in DOMAIN users[u].courses}

RaceStep(reqs) ==
  /\ inFlight' = [inFlight EXCEPT !.reqs = reqs]
  /\ config' = config
  /\ role_permissions' = role_permissions

\* the two requests arrive
RaceArrive ==
  /\ inFlight = Idle
  /\ \E sd1 \in ShortInputs, sd2 \in ShortInputs :
       inFlight' =
         [at |-> "racing",
          reqs |-> [p \in 1..2 |->
                     [pc |-> "arrived", studentDetails |-> IF p = 1 THEN sd1 ELSE sd2,
                      documentId |-> RaceDoc(p), db0 |-> DB, users |-> user_manage,
                      status |-> 0]]]
  /\ config' = config
  /\ role_permissions' = role_permissions
  /\ UNCHANGED <<courses, batches, trainees, attendance, user_manage, assignments,
                 enrollments, payment_orders, today, lastReq, response, nOps>>

\* lines 107-328: the roster and the attendance collection are read, the
\* request is validated against the roster, the record is written
RaceUpsert(p) ==
  /\ inFlight.at = "racing"
  /\ inFlight.reqs[p].pc = "arrived"
  /\ LET q == inFlight.reqs[p]
         r == RaceResult(q, DB)
     IN  IF r.response.status \in {200, 201}
         THEN /\ attendance' = (q.documentId :> r.attendance[q.documentId]) @@ attendance
              /\ RaceStep([inFlight.reqs EXCEPT ![p].pc = "upserted", ![p].db0 = DB])
              /\ UNCHANGED <<lastReq, response, nOps>>
         ELSE /\ attendance' = attendance
              /\ RaceStep([inFlight.reqs EXCEPT ![p].pc = "done",
                                                ![p].status = r.response.status])
              /\ response' = r.response
              /\ lastReq' = "RecordAttendance"
              /\ nOps' = nOps + 1
  /\ UNCHANGED <<courses, batches, trainees, user_manage, assignments, enrollments,
                 payment_orders, today>>

\* lines 400-531: await userRef.get() of the listed users
RaceReadUsers(p) ==
  /\ inFlight.at = "racing"
  /\ inFlight.reqs[p].pc = "upserted"
  /\ RaceStep([inFlight.reqs EXCEPT ![p].pc = "read", ![p].users = user_manage])
  /\ UNCHANGED <<courses, batches, trainees, attendance, user_manage, assignments,
                 enrollments, payment_orders, today, lastReq, response, nOps>>

\* lines 517-536: the updates of the attendance fields land
RaceWriteUsers(p) ==
  /\ inFlight.at = "racing"
  /\ inFlight.reqs[p].pc = "read"
  /\ LET q == inFlight.reqs[p]
         r == RaceResult(q, [q.db0 EXCEPT !.user_manage = q.users])
     IN  user_manage' =
           [u \in DOMAIN user_manage |->
              IF u \in RaceWritten(q, q.users)
              THEN [user_manage[u] EXCEPT
                      !.courses[Course1].totalPresent = r.user_manage[u].courses[Course1].totalPresent,
                      !.courses[Course1].totalAbsent = r.user_manage[u].courses[Course1].totalAbsent,
                      !.courses[Course1].attendanceRate = r.user_manage[u].courses[Course1].attendanceRate,
                      !.courses[Course1].attendanceHistory = r.user_manage[u].courses[Course1].attendanceHistory]
              ELSE user_manage[u]]
  /\ RaceStep([inFlight.reqs EXCEPT ![p].pc = "written"])
  /\ UNCHANGED <<courses, batches, trainees, attendance, assignments, enrollments,
                 payment_orders, today, lastReq, response, nOps>>

\* lines 391-395 and 538-553: the roster array computed from the first read
\* replaces the stored one, and the request answers
RaceCommit(p) ==
  /\ inFlight.at = "racing"
  /\ inFlight.reqs[p].pc = "written"
  /\ LET q == inFlight.reqs[p]
         r == RaceResult(q, q.db0)
     IN  /\ trainees' = [trainees EXCEPT ![Batch1] = r.trainees[Batch1]]
         /\ response' = r.response
         /\ RaceStep([inFlight.reqs EXCEPT ![p].pc = "done",
                                           ![p].status = r.response.status])
  /\ nOps' = nOps + 1
  /\ lastReq' = "RecordAttendance"
  /\ UNCHANGED <<courses, batches, attendance, user_manage, assignments, enrollments,
                 payment_orders, today>>

NextRace ==
  \/ RaceArrive
  \/ \E p \in 1..2 : RaceUpsert(p)
  \/ \E p \in 1..2 : RaceReadUsers(p)
  \/ \E p \in 1..2 : RaceWriteUsers(p)
  \/ \E p \in 1..2 : RaceCommit(p)

SpecRace == InitEnrolled /\ [][NextRace]_vars

(***************************************************************************)
(* Enrolments handled while RecordAttendance requests are in progress.     *)
(* The store starts with t1 on the roster of the batch and t2 registered   *)
(* but not enrolled.                                                       *)
(***************************************************************************)
InitJoin ==
  /\ courses = {Course1}
  /\ batches = (BaseDoc1 :> (Batch1 :> [suffix |-> "A"]))
  /\ trainees = (Batch1 :> <<NewRosterEntry("t1", 0)>>)
  /\ attendance = <<>>
  /\ user_manage = Users0({"t1"})
  /\ assignments = <<>>
  /\ enrollments = <<>>
  /\ payment_orders = Orders0
  /\ today = DayOf(1)
  /\ lastReq = NoReq
  /\ response = Reply(0)
  /\ nOps = 0
  /\ inFlight = Idle
  /\ config = Config0
  /\ role_permissions = Roles0

JoinManualStep ==
  /\ nOps < MaxOps + 2
  /\ Len(enrollments) < MaxOps
  /\ \E userId \in Trainees : AddManualPayment(userId, Course1, Batch1)

JoinVerifyStep ==
  /\ nOps < MaxOps + 2
  /\ Len(enrollments) < MaxOps
  /\ VerifyPayment("order_1", "pay_1", Hmac(Secret, "order_1", "pay_1"))

NextJoin ==
  \/ NextRace
  \/ JoinManualStep
  \/ JoinVerifyStep

SpecJoin == InitJoin /\ [][NextJoin]_vars

(***************************************************************************)
(* Two SubmitAssignment requests for the same assignment and trainee,      *)
(* handled concurrently.  A request reads the assignment document and      *)
(* checks it, writes the submissions array, reads the roster, writes the   *)
(* roster, reads the user, writes the user and answers.                    *)
(***************************************************************************)
\* what request q computes from what it has read so far
TwiceResult(q) ==
  SubmitAssignmentOn(q.db0, q.documentId, q.assignmentName, q.traineeId, q.score)

TwiceStep(p, pc, db0) ==
  /\ inFlight' = [inFlight EXCEPT !.reqs[p].pc = pc, !.reqs[p].db0 = db0]
  /\ config' = config
  /\ role_permissions' = role_permissions

TwiceArrive ==
  /\ inFlight = Idle
  /\ \E a \in AssignmentNames, t \in Trainees, s1 \in 0..MaxScore, s2 \in 0..MaxScore :
       inFlight' =
         [at |-> "twice",
          reqs |-> [p \in 1..2 |->
                     [pc |-> "arrived", documentId |-> AsgDoc(1), assignmentName |-> a,
                      traineeId |-> t, score |-> IF p = 1 THEN s1 ELSE s2,
                      db0 |-> AsgDB, status |-> 0]]]
  /\ config' = config
  /\ role_permissions' = role_permissions
  /\ UNCHANGED <<courses, batches, trainees, attendance, user_manage, assignments,
                 enrollments, payment_orders, today, lastReq, response, nOps>>

\* lines 727-762: await assignmentRef.get() and the existing-submission check
TwiceCheck(p) ==
  /\ inFlight.at = "twice"
  /\ inFlight.reqs[p].pc = "arrived"
  /\ LET q == [inFlight.reqs[p] EXCEPT !.db0.assignments = assignments]
         r == TwiceResult(q)
     IN  IF r.response.status = 200
         THEN /\ TwiceStep(p, "checked", q.db0)
              /\ UNCHANGED <<lastReq, response, nOps>>
         ELSE /\ inFlight' = [inFlight EXCEPT !.reqs[p].pc = "done",
                                             !.reqs[p].status = r.response.status]
              /\ config' = config
              /\ role_permissions' = role_permissions
              /\ response' = r.response
              /\ lastReq' = "SubmitAssignment"
              /\ nOps' = nOps + 1
  /\ UNCHANGED <<courses, batches, trainees, attendance, user_manage, assignments,
                 enrollments, payment_orders, today>>

\* lines 764-781: the submissions read, with the new one appended, are written
TwiceSubmissions(p) ==
  /\ inFlight.at = "twice"
  /\ inFlight.reqs[p].pc = "checked"
  /\ LET q == inFlight.reqs[p]
     IN  /\ assignments' =
              [assignments EXCEPT ![q.documentId].fields[q.assignmentName].submissions =
                 TwiceResult(q).assignments[q.documentId].fields[q.assignmentName].submissions]
         /\ TwiceStep(p, "submitted", q.db0)
  /\ UNCHANGED <<courses, batches, trainees, attendance, user_manage, enrollments,
                 payment_orders, today, lastReq, response, nOps>>

\* lines 783-788: await traineesRef.get()
TwiceReadRoster(p) ==
  /\ inFlight.at = "twice"
  /\ inFlight.reqs[p].pc = "submitted"
  /\ TwiceStep(p, "roster read", [inFlight.reqs[p].db0 EXCEPT !.trainees = trainees])
  /\ UNCHANGED <<courses, batches, trainees, attendance, user_manage, assignments,
                 enrollments, payment_orders, today, lastReq, response, nOps>>

\* lines 790-815: the roster read, with the score pushed, is written
TwiceWriteRoster(p) ==
  /\ inFlight.at = "twice"
  /\ inFlight.reqs[p].pc = "roster read"
  /\ trainees' = TwiceResult(inFlight.reqs[p]).trainees
  /\ TwiceStep(p, "roster written", inFlight.reqs[p].db0)
  /\ UNCHANGED <<courses, batches, attendance, user_manage, assignments, enrollments,
                 payment_orders, today, lastReq, response, nOps>>

\* lines 818-825: await userRef.get()
TwiceReadUser(p) ==
  /\ inFlight.at = "twice"
  /\ inFlight.reqs[p].pc = "roster written"
  /\ TwiceStep(p, "user read", [inFlight.reqs[p].db0 EXCEPT !.user_manage = user_manage])
  /\ UNCHANGED <<courses, batches, trainees, attendance, user_manage, assignments,
                 enrollments, payment_orders, today, lastReq, response, nOps>>

\* lines 826-925: assignmentHistory and averageScore are written, the
\* request answers
TwiceWriteUser(p) ==
  /\ inFlight.at = "twice"
  /\ inFlight.reqs[p].pc = "user read"
  /\ LET q == inFlight.reqs[p]
         r == TwiceResult(q)
         c == q.db0.assignments[q.documentId].fields[q.assignmentName].courseId
     IN  /\ user_manage' =
              IF r.user_manage[q.traineeId] = q.db0.user_manage[q.traineeId]
              THEN user_manage
              ELSE [user_manage EXCEPT
                      ![q.traineeId].courses[c].assignmentHistory =
                         r.user_manage[q.traineeId].courses[c].assignmentHistory,
                      ![q.traineeId].courses[c].averageScore =
                         r.user_manage[q.traineeId].courses[c].averageScore]
         /\ response' = r.response
         /\ inFlight' = [inFlight EXCEPT !.reqs[p].pc = "done",
                                         !.reqs[p].status = r.response.status]
  /\ config' = config
  /\ role_permissions' = role_permissions
  /\ nOps' = nOps + 1
  /\ lastReq' = "SubmitAssignment"
  /\ UNCHANGED <<courses, batches, trainees, attendance, assignments, enrollments,
                 payment_orders, today>>

NextTwice ==
  \/ TwiceArrive
  \/ \E p \in 1..2 : TwiceCheck(p)
  \/ \E p \in 1..2 : TwiceSubmissions(p)
  \/ \E p \in 1..2 : TwiceReadRoster(p)
  \/ \E p \in 1..2 : TwiceWriteRoster(p)
  \/ \E p \in 1..2 : TwiceReadUser(p)
  \/ \E p \in 1..2 : TwiceWriteUser(p)

SpecTwice == InitAssigned /\ [][NextTwice]_vars

(***************************************************************************)
(* Roles: the document "roles" holds one field per role.  A request body   *)
(* is a record with the fields the client sent: name, active, both or      *)
(* none.  The permissions, updatedBy and updatedAt of a role are left out. *)
(***************************************************************************)
RoleNames == {"Admin", "Trainer", "Root"}

RoleBodies ==
  [name : RoleNames, active : BOOLEAN] \cup [name : RoleNames] \cup [active : BOOLEAN]
    \cup {<<>>}

Sent(body, field) == field \in DOMAIN body

\* POST /roles on the roles document
CreateRoleOn(rolesData, body) ==
  IF ~Sent(body, "name") THEN [roles |-> rolesData, status |-> 400]
  ELSE IF body.name \in DOMAIN rolesData THEN [roles |-> rolesData, status |-> 400]
  ELSE
    LET newRole == [active |-> IF Sent(body, "active") THEN body.active # FALSE ELSE TRUE]
    IN  [roles |-> (body.name :> newRole) @@ rolesData, status |-> 201]

\* PUT /roles/:roleName on the roles document
UpdateRoleOn(rolesData, roleName, body) ==
  IF roleName \notin DOMAIN rolesData THEN [roles |-> rolesData, status |-> 404]
  ELSE IF roleName = "Admin" /\ Sent(body, "active") /\ body.active = FALSE
  THEN [roles |-> rolesData, status |-> 400]
  ELSE
    LET updatedRole ==
          [rolesData[roleName] EXCEPT
             !.active = IF Sent(body, "active") THEN body.active ELSE @]
    IN  IF Sent(body, "name") /\ body.name # roleName
        THEN IF body.name \in DOMAIN rolesData
             THEN [roles |-> rolesData, status |-> 400]
             ELSE [roles |->
                     (body.name :> updatedRole)
                       @@ [n \in DOMAIN rolesData \ {roleName} |-> rolesData[n]],
                   status |-> 200]
        ELSE [roles |-> [rolesData EXCEPT ![roleName] = updatedRole], status |-> 200]

\* DELETE /roles/:roleName on the roles document
DeleteRoleOn(rolesData, roleName) ==
  IF roleName = "Admin" THEN [roles |-> rolesData, status |-> 400]
  ELSE IF roleName \notin DOMAIN rolesData THEN [roles |-> rolesData, status |-> 404]
  ELSE [roles |-> [n \in DOMAIN rolesData \ {roleName} |-> rolesData[n]], status |-> 200]

RoleRequest(op, r) ==
  /\ nOps' = nOps + 1
  /\ lastReq' = op
  /\ role_permissions' = r.roles
  /\ response' = Reply(r.status)
  /\ UNCHANGED <<courses, batches, trainees, attendance, user_manage, assignments,
                 enrollments, payment_orders, today, inFlight, config>>

CreateRole ==
  /\ nOps < MaxOps
  /\ \E body \in RoleBodies : RoleRequest("CreateRole", CreateRoleOn(role_permissions, body))

UpdateRole ==
  /\ nOps < MaxOps
  /\ \E roleName \in RoleNames, body \in RoleBodies :
       RoleRequest("UpdateRole", UpdateRoleOn(role_permissions, roleName, body))

DeleteRole ==
  /\ nOps < MaxOps
  /\ \E roleName \in RoleNames :
       RoleRequest("DeleteRole", DeleteRoleOn(role_permissions, roleName))

NextRoles ==
  \/ CreateRole
  \/ UpdateRole
  \/ DeleteRole

SpecRoles == InitEnrolled /\ [][NextRoles]_vars

(***************************************************************************)
(* The configuration cache over a few minutes.                             *)
(***************************************************************************)
SetAppConfigStep == \E keys \in KeySets \cup {"none"} : SetAppConfig(keys)

NextConfig ==
  \/ GetAppConfig
  \/ GetRazorpayConfig
  \/ Minute
  \/ SetAppConfigStep

SpecConfig == InitEnrolled /\ [][NextConfig]_vars

(***************************************************************************)
(* One more request than elsewhere, each naming at most one student: the   *)
(* runs in which a counter is decremented for a record that was never      *)
(* counted.                                                                *)
(***************************************************************************)
FloorOps == MaxOps + 1

SingleInputs == {<<>>} \cup {<<e>> : e \in DetailEntries}

RecordOneStep ==
  /\ nOps < FloorOps
  /\ \E studentDetails \in SingleInputs, providedDocumentId \in ProvidedIds \cup {NoDoc} :
       RecordAttendance(Course1, Batch1, studentDetails, providedDocumentId,
                        ZeroPick(studentDetails))

DeleteOneStep ==
  /\ nOps < FloorOps
  /\ \E recordId \in ProvidedIds :
       \E pick \in DeletePicks(recordId) :
         DeleteAttendance(recordId, pick)

NextFloor ==
  \/ RecordOneStep
  \/ DeleteOneStep

SpecFloor == InitEnrolled /\ [][NextFloor]_vars

(***************************************************************************)
(* RecordAttendance write by write.  The handler awaits the upsert of the  *)
(* attendance record, then starts the user_manage updates and awaits them  *)
(* all, and commits the roster batch last; every write is visible to other *)
(* readers as soon as it lands.  What the request computes is fixed by its *)
(* reads, which no other request disturbs here.                            *)
(***************************************************************************)
\* up to await docRef.update / docRef.set; a request that fails validation
\* answers at once
RecordUpsert(courseId, batchId, studentDetails, providedDocumentId) ==
  LET r == RecordAttendanceOn(DB, courseId, batchId, studentDetails,
                              providedDocumentId, ZeroPick(studentDetails))
  IN  IF r.response.status \notin {200, 201}
      THEN RecordAttendance(courseId, batchId, studentDetails, providedDocumentId,
                            ZeroPick(studentDetails))
      ELSE /\ attendance' = r.attendance
           /\ inFlight' = [at |-> "upserted", users |-> user_manage, result |-> r]
           /\ config' = config
           /\ role_permissions' = role_permissions
           /\ UNCHANGED <<courses, batches, trainees, user_manage, assignments,
                          enrollments, payment_orders, today, lastReq, response, nOps>>

\* the for loop and await Promise.all(userUpdates)
RecordAggregates ==
  /\ inFlight.at = "upserted"
  /\ user_manage' = inFlight.result.user_manage
  /\ inFlight' = [inFlight EXCEPT !.at = "aggregates"]
  /\ config' = config
  /\ role_permissions' = role_permissions
  /\ UNCHANGED <<courses, batches, trainees, attendance, assignments, enrollments,
                 payment_orders, today, lastReq, response, nOps>>

\* await batch.commit() and the response
RecordCommit ==
  /\ inFlight.at = "aggregates"
  /\ trainees' = inFlight.result.trainees
  /\ response' = inFlight.result.response
  /\ nOps' = nOps + 1
  /\ lastReq' = "RecordAttendance"
  /\ inFlight' = Idle
  /\ config' = config
  /\ role_permissions' = role_permissions
  /\ UNCHANGED <<courses, batches, attendance, user_manage, assignments, enrollments,
                 payment_orders, today>>

\* DeleteAttendance write by write: up to await traineesRef.update; a request
\* for a record that does not exist answers at once
DeleteRoster(recordId, pick) ==
  LET r == DeleteAttendanceOn(DB, recordId, pick)
  IN  IF r.response.status # 200
      THEN DeleteAttendance(recordId, pick)
      ELSE /\ trainees' = r.trainees
           /\ inFlight' = [at |-> "roster", recordId |-> recordId, result |-> r]
           /\ config' = config
           /\ role_permissions' = role_permissions
           /\ UNCHANGED <<courses, batches, attendance, user_manage, assignments,
                          enrollments, payment_orders, today, lastReq, response, nOps>>

\* the for loop and await Promise.all(userUpdates)
DeleteAggregates ==
  /\ inFlight.at = "roster"
  /\ user_manage' = inFlight.result.user_manage
  /\ inFlight' = [inFlight EXCEPT !.at = "reversed"]
  /\ config' = config
  /\ role_permissions' = role_permissions
  /\ UNCHANGED <<courses, batches, trainees, attendance, assignments, enrollments,
                 payment_orders, today, lastReq, response, nOps>>

\* a delete of the record that does not wait for the reversals
DeleteRecordAfter_Roster == "roster"

\* the position from which collection("attendance").doc(recordId).delete()
\* is reached: past await Promise.all(userUpdates)
DeleteRecordAfter == "reversed"

\* the delete of the record and the response
DeleteRecord ==
  /\ inFlight.at = DeleteRecordAfter
  /\ attendance' = inFlight.result.attendance
  /\ response' = inFlight.result.response
  /\ nOps' = nOps + 1
  /\ lastReq' = "DeleteAttendance"
  /\ inFlight' = Idle
  /\ config' = config
  /\ role_permissions' = role_permissions
  /\ UNCHANGED <<courses, batches, trainees, user_manage, assignments, enrollments,
                 payment_orders, today>>

DeleteRosterStep ==
  /\ nOps < MaxOps
  /\ inFlight = Idle
  /\ \E recordId \in ProvidedIds :
       \E pick \in DeletePicks(recordId) :
         DeleteRoster(recordId, pick)

RecordUpsertStep ==
  /\ nOps < MaxOps
  /\ inFlight = Idle
  /\ \E studentDetails \in ShortInputs, providedDocumentId \in ProvidedIds \cup {NoDoc} :
       RecordUpsert(Course1, Batch1, studentDetails, providedDocumentId)

NextOrder ==
  \/ RecordUpsertStep
  \/ RecordAggregates
  \/ RecordCommit
  \/ DeleteRosterStep
  \/ DeleteAggregates
  \/ DeleteRecord

SpecOrder == InitEnrolled /\ [][NextOrder]_vars

(***************************************************************************)
(* Requests during which the store rejects the primary write: the upsert   *)
(* of the attendance record, the append to submissions, the delete of an   *)
(* assignment.                                                             *)
(***************************************************************************)
PrimaryFailures == {"none", "assignments"}

RecordRejectedStep ==
  /\ nOps < MaxOps
  /\ \E studentDetails \in ShortInputs, providedDocumentId \in ProvidedIds \cup {NoDoc} :
       \E failed \in {{}, {0}} :
         RecordAttendanceFailing(Course1, Batch1, studentDetails, providedDocumentId, failed)

SubmitRejectedStep ==
  /\ nOps < MaxOps
  /\ \E d \in AsgDocs, a \in AssignmentNames, t \in Trainees, failed \in PrimaryFailures :
       SubmitAssignmentFailing(d, a, t, MaxScore, failed)

DeleteRejectedStep ==
  /\ nOps < MaxOps
  /\ \E d \in AsgDocs, a \in AssignmentNames, failed \in PrimaryFailures :
       DeleteAssignmentFailing(d, a, failed)

NextPrimary ==
  \/ RecordRejectedStep
  \/ SubmitRejectedStep
  \/ DeleteRejectedStep

SpecPrimary == InitAssigned /\ [][NextPrimary]_vars

\* a create request (no documentId) on a day that has no record yet
CreateOnNewDayStep ==
  /\ nOps < MaxOps
  /\ FormatDate(today) \o Batch1 \notin DOMAIN attendance
  /\ \E studentDetails \in DetailInputs :
       \E pick \in Picks(studentDetails) :
         RecordAttendance(Course1, Batch1, studentDetails, NoDoc, pick)

NextCreate ==
  \/ CreateOnNewDayStep
  \/ Tick

SpecCreate == InitEnrolled /\ [][NextCreate]_vars


(***************************************************************************)
(* Properties.                                                             *)
(***************************************************************************)
\* the stored attendance records of course c that list trainee u with a
\* status satisfying Is
RecordsListing(u, c, Is(_)) ==
  {id \in DOMAIN attendance :
     /\ attendance[id].courseId = c
     /\ \E i \in 1..Len(attendance[id].studentDetails) :
          /\ attendance[id].studentDetails[i].studentId = u
          /\ Is(attendance[id].studentDetails[i].status)}

IsPresent(status) == status = "Present"
IsNotPresent(status) == status # "Present"
AnyStatus(status) == TRUE

\* C1: after any failure-free sequence of RecordAttendance and
\* DeleteAttendance calls, every aggregate's totalPresent is the number of
\* stored records of the course that list the trainee as Present, and its
\* totalAbsent the number that list the trainee with another status.
C1_CountersMatchRecords ==
  \A u \in DOMAIN user_manage :
    \A c \in DOMAIN user_manage[u].courses :
      /\ Num(user_manage[u].courses[c].totalPresent)
           = Cardinality(RecordsListing(u, c, IsPresent))
      /\ Num(user_manage[u].courses[c].totalAbsent)
           = Cardinality(RecordsListing(u, c, IsNotPresent))


\* C2: after any sequence of successful create calls on pairwise distinct
\* dates for one batch, for every trainee of the batch whose user record
\* holds the course, totalPresent + totalAbsent of the aggregate is the
\* number of those records whose studentDetails include the trainee.
C2_SumCountsRecords ==
  \A n \in 1..Len(trainees[Batch1]) :
    LET u == trainees[Batch1][n].userId
    IN  Course1 \in DOMAIN user_manage[u].courses =>
          Num(user_manage[u].courses[Course1].totalPresent)
            + Num(user_manage[u].courses[Course1].totalAbsent)
          = Cardinality(RecordsListing(u, Course1, AnyStatus))


\* the store after a handler has answered with r
After(db, r) ==
  [db EXCEPT !.attendance = r.attendance, !.trainees = r.trainees,
             !.user_manage = r.user_manage]

\* the roster counters of batch b and the attendance fields of the
\* aggregates, restricted to the trainees in who
RosterCounters(db, b, who) ==
  [n \in {m \in 1..Len(db.trainees[b]) : db.trainees[b][m].userId \in who} |->
     <<Num(db.trainees[b][n].totalPresent), Num(db.trainees[b][n].totalAbsent)>>]

AggregateCounters(db, c, who) ==
  [u \in {v \in who \cap DOMAIN db.user_manage : c \in DOMAIN db.user_manage[v].courses} |->
     <<Num(db.user_manage[u].courses[c].totalPresent),
       Num(db.user_manage[u].courses[c].totalAbsent),
       db.user_manage[u].courses[c].attendanceRate>>]

Listed(studentDetails) ==
  {studentDetails[i].studentId : i \in 1..Len(studentDetails)}

\* C3: a second RecordAttendance with the same explicit documentId and
\* identical studentDetails leaves every roster entry's counters and every
\* affected trainee's totalPresent, totalAbsent and attendanceRate as they
\* were after the first call.
C3_SecondCallChangesNothing ==
  \A d \in ProvidedIds, sd \in DetailInputs :
    \A p1 \in Picks(sd), p2 \in Picks(sd) :
      LET r1 == RecordAttendanceOn(DB, Course1, Batch1, sd, d, p1)
          db1 == After(DB, r1)
          r2 == RecordAttendanceOn(db1, Course1, Batch1, sd, d, p2)
          db2 == After(db1, r2)
      IN  r1.response.status \in {200, 201} =>
            /\ RosterCounters(db2, Batch1, Trainees) = RosterCounters(db1, Batch1, Trainees)
            /\ AggregateCounters(db2, Course1, Listed(sd))
                 = AggregateCounters(db1, Course1, Listed(sd))

\* C5: for an existing record R, DeleteAttendance(R) immediately followed
\* by RecordAttendance with R's documentId and identical studentDetails
\* restores every affected trainee's roster counters and aggregate
\* totalPresent, totalAbsent and attendanceRate to their pre-delete values.
C5_DeleteThenReAddRestores ==
  \A id \in DOMAIN attendance :
    LET rec == attendance[id]
        who == Listed(rec.studentDetails)
    IN  \A p1 \in Picks(rec.studentDetails), p2 \in Picks(rec.studentDetails) :
          LET r1 == DeleteAttendanceOn(DB, id, p1)
              db1 == After(DB, r1)
              r2 == RecordAttendanceOn(db1, rec.courseId, rec.batchId,
                                       rec.studentDetails, id, p2)
              db2 == After(db1, r2)
          IN  /\ RosterCounters(db2, rec.batchId, who) = RosterCounters(DB, rec.batchId, who)
              /\ AggregateCounters(db2, rec.courseId, who)
                   = AggregateCounters(DB, rec.courseId, who)

C6_RateFollowsCounters ==
  \A u \in DOMAIN user_manage :
    \A c \in DOMAIN user_manage[u].courses :
      LET p == Num(user_manage[u].courses[c].totalPresent)
          a == Num(user_manage[u].courses[c].totalAbsent)
      IN  user_manage[u].courses[c].attendanceRate
            = IF p + a = 0 THEN 0 ELSE (200 * p + (p + a)) \div (2 * (p + a))


(***************************************************************************)
(* Assignment properties                                                   *)
(***************************************************************************)
\* C4: a second SubmitAssignment with the (documentId, assignmentName,
\* traineeId) of a stored submission is answered 400 and changes nothing:
\* no submission, roster score, history entry or averageScore.
C4_ResubmitRejected ==
  \A d \in DOMAIN assignments :
    \A a \in DOMAIN assignments[d].fields :
      \A i \in 1..Len(assignments[d].fields[a].submissions) :
        \A score \in 0..MaxScore :
          LET r == SubmitAssignmentOn(AsgDB, d, a,
                     assignments[d].fields[a].submissions[i].traineeId, score)
          IN  /\ r.response.status = 400
              /\ r.assignments = assignments
              /\ r.trainees = trainees
              /\ r.user_manage = user_manage

\* a resubmission has just been rejected
C4_Witness ==
  /\ lastReq = "SubmitAssignment"
  /\ response.status = 400
  /\ \E d \in DOMAIN assignments :
       \E a \in DOMAIN assignments[d].fields :
         assignments[d].fields[a].submissions # <<>>

\* rounded mean of score / totalMarks * 100 over the entries with marks,
\* divided by the number of those entries
MeanOfMarked(history) ==
  LET Marked(entry) == entry.totalMarks > 0
      marked == Filter(history, Marked)
  IN  IF marked = <<>> THEN 0 ELSE RoundDiv(TotalScore(marked, 1), Len(marked))

\* C7: the averageScore that SubmitAssignment and DeleteAssignment leave in
\* an aggregate is the rounded mean of the percentages of the history
\* entries with totalMarks > 0, over the number of those entries, 0 if none.
C7_AverageOverMarkedEntries ==
  \A u \in DOMAIN user_manage :
    \A c \in DOMAIN user_manage[u].courses :
      user_manage[u].courses[c].averageScore =
        MeanOfMarked(user_manage[u].courses[c].assignmentHistory)

EntryOf(entry, documentId, assignmentName) ==
  /\ entry.assignmentId = documentId
  /\ entry.assignmentName = assignmentName

\* C8: DeleteAssignment leaves each submitter without a history entry for
\* the assignment, keeps the entries of the submitter's other assignments,
\* and leaves averageScore as recomputed over the remaining entries.
C8_DeleteRemovesOnlyItsEntry ==
  \A d \in DOMAIN assignments :
    \A a \in DOMAIN assignments[d].fields :
      LET r == DeleteAssignmentOn(AsgDB, d, a)
          c == assignments[d].fields[a].courseId
          submissions == assignments[d].fields[a].submissions
      IN  \A i \in 1..Len(submissions) :
            LET t == submissions[i].traineeId IN
            (t \in DOMAIN user_manage /\ c \in DOMAIN user_manage[t].courses) =>
              LET before == user_manage[t].courses[c].assignmentHistory
                  after == r.user_manage[t].courses[c].assignmentHistory
              IN  /\ \A k \in 1..Len(after) : ~EntryOf(after[k], d, a)
                  /\ \A k \in 1..Len(before) :
                       ~EntryOf(before[k], d, a) =>
                         \E m \in 1..Len(after) : after[m] = before[k]
                  /\ r.user_manage[t].courses[c].averageScore = AverageScore(after)

\* C10: assignmentHistory holds at most one entry per assignment document
\* id; a submission whose id is already there replaces the entry.
C10_OneEntryPerDocument ==
  \A u \in DOMAIN user_manage :
    \A c \in DOMAIN user_manage[u].courses :
      LET history == user_manage[u].courses[c].assignmentHistory
      IN  \A i, j \in 1..Len(history) :
            history[i].assignmentId = history[j].assignmentId => i = j

\* a trainee has submitted two assignments of one document and holds the
\* single entry of the later one
C10_Witness ==
  \E u \in DOMAIN user_manage :
    \E d \in DOMAIN assignments :
      /\ Course1 \in DOMAIN user_manage[u].courses
      /\ \A a \in AssignmentNames :
           /\ a \in DOMAIN assignments[d].fields
           /\ ExistingSubmission(assignments[d].fields[a].submissions, u) # 0
      /\ Len(user_manage[u].courses[Course1].assignmentHistory) = 1
      /\ user_manage[u].courses[Course1].assignmentHistory[1].assignmentId = d

(***************************************************************************)
(* Updates of a stored attendance record                                   *)
(***************************************************************************)
\* the lists that name the students of details in the same order, with any
\* statuses
Restatused(details) ==
  {sd \in [1..Len(details) -> DetailEntries \cup {[studentId |-> Outsider, status |-> "Present"]}] :
     \A i \in 1..Len(details) : sd[i].studentId = details[i].studentId}

\* counters <<present, absent>> after one unit has moved as the status
\* change from old to new requires
Moved(counters, old, new) ==
  IF old = new THEN counters
  ELSE IF new = "Present" THEN <<counters[1] + 1, counters[2] - 1>>
  ELSE <<counters[1] - 1, counters[2] + 1>>

\* C11: an update of a stored record that changes a trainee's status moves
\* exactly one unit between totalPresent and totalAbsent, in the roster
\* entry and in the aggregate, and an update with unchanged status changes
\* neither counter.
C11_UpdateMovesOneUnit ==
  \A id \in DOMAIN attendance :
    LET rec == attendance[id] IN
    \A sd \in Restatused(rec.studentDetails) :
      \A pick \in Picks(sd) :
        LET r == RecordAttendanceOn(DB, rec.courseId, rec.batchId, sd, id, pick)
            db1 == After(DB, r)
        IN  \A i \in 1..Len(sd) :
              LET u == sd[i].studentId
                  old == rec.studentDetails[i].status
                  new == sd[i].status
              IN  /\ \A n \in 1..Len(trainees[rec.batchId]) :
                       trainees[rec.batchId][n].userId = u =>
                         <<Num(db1.trainees[rec.batchId][n].totalPresent),
                           Num(db1.trainees[rec.batchId][n].totalAbsent)>>
                         = Moved(<<Num(trainees[rec.batchId][n].totalPresent),
                                   Num(trainees[rec.batchId][n].totalAbsent)>>, old, new)
                  /\ (u \in DOMAIN user_manage /\ rec.courseId \in DOMAIN user_manage[u].courses) =>
                       <<Num(db1.user_manage[u].courses[rec.courseId].totalPresent),
                         Num(db1.user_manage[u].courses[rec.courseId].totalAbsent)>>
                       = Moved(<<Num(user_manage[u].courses[rec.courseId].totalPresent),
                                 Num(user_manage[u].courses[rec.courseId].totalAbsent)>>, old, new)

\* C12: DeleteAssignment deletes the whole document if and only if the
\* named assignment is its only assignment field; otherwise it removes only
\* that field and leaves every other assignment field, with its
\* submissions, and every other document as they were.
C12_DeleteDocumentIffOnlyField ==
  \A d \in DOMAIN assignments :
    \A a \in DOMAIN assignments[d].fields :
      LET r == DeleteAssignmentOn(AsgDB, d, a)
      IN  /\ r.response.status = 200
          /\ d \notin DOMAIN r.assignments <=> DOMAIN assignments[d].fields = {a}
          /\ d \in DOMAIN r.assignments =>
               /\ DOMAIN r.assignments[d].fields = DOMAIN assignments[d].fields \ {a}
               /\ \A b \in DOMAIN r.assignments[d].fields :
                    r.assignments[d].fields[b] = assignments[d].fields[b]
          /\ \A e \in DOMAIN assignments \ {d} :
               e \in DOMAIN r.assignments /\ r.assignments[e] = assignments[e]

\* assignments have been deleted from both documents: the document of day 2,
\* which held one assignment, is gone, and the document of day 1 keeps its
\* other assignment
C12_Witness ==
  /\ lastReq = "DeleteAssignment"
  /\ response.status = 200
  /\ AsgDoc(2) \notin DOMAIN assignments
  /\ AsgDoc(1) \in DOMAIN assignments
  /\ Cardinality(DOMAIN assignments[AsgDoc(1)].fields) = 1

(***************************************************************************)
(* Batch resolution                                                        *)
(***************************************************************************)
\* the keys a lookup of batchId may end with
ScanResults(batchId) ==
  IF SubSeq(batchId, 1, 3) \in DOMAIN batches
  THEN LastMatches(batches[SubSeq(batchId, 1, 3)], batchId[Len(batchId)])
  ELSE {NoDoc}

\* the document of the first three segments is missing, or none of its
\* fields has the last segment as suffix
NoSuchBatch(batchId) ==
  \/ SubSeq(batchId, 1, 3) \notin DOMAIN batches
  \/ \A key \in DOMAIN batches[SubSeq(batchId, 1, 3)] :
       batches[SubSeq(batchId, 1, 3)][key].suffix # batchId[Len(batchId)]

\* C13: a batchId resolves to the base document named by its first three
\* segments and the suffix in its last segment, and the answer is 404 when
\* that document is missing or none of its fields has that suffix, in the
\* batch lookup handler and in RecordAttendance alike.
C13_ResolveByFirstThreeSegments ==
  \A batchId \in BatchIds :
    /\ \A batchKey \in ScanResults(batchId) :
         LET r == GetBatchOn(batches, batchId, batchKey)
         IN  /\ r.status = 200 =>
                  /\ r.documentId = SubSeq(batchId, 1, 3)
                  /\ r.suffix = batchId[Len(batchId)]
             /\ NoSuchBatch(batchId) => r.status = 404
    /\ NoSuchBatch(batchId) =>
         \A studentDetails \in ShortInputs :
           \A pick \in Picks(studentDetails) :
             RecordAttendanceOn(DB, Course1, batchId, studentDetails, NoDoc, pick)
               .response.status = 404

\* C14: a field of a base batch document is the match of a resolution
\* whenever its suffix attribute is the requested suffix, whatever its key:
\* the lookup answers with that field and the delete removes that field.
C14_MatchBySuffixOnly ==
  \A documentId \in DOMAIN batches :
    \A key \in DOMAIN batches[documentId] :
      LET suffix == batches[documentId][key].suffix
      IN  \A batchKey \in LastMatches(batches[documentId], suffix) :
            /\ GetBatchOn(batches, documentId \o <<suffix>>, batchKey).batchKey = key
            /\ LET r == DeleteBatchOn(batches, documentId, suffix, batchKey)
               IN  documentId \in DOMAIN r.batches => key \notin DOMAIN r.batches[documentId]

(***************************************************************************)
(* Enrollment properties                                                   *)
(***************************************************************************)
EnrollmentOps == {"verifyPayment", "addManualPayment", "updateTraineeCourseDetails"}

\* the fields of an aggregate that attendance and assignment events maintain
EventFields(courseData) ==
  <<courseData.totalPresent, courseData.totalAbsent, courseData.attendanceHistory,
    courseData.assignmentHistory>>

\* C15: once a trainee's aggregate for a course exists, no enrollment
\* operation (verifyPayment, addManualPayment, updateTraineeCourseDetails)
\* discards or resets its totalPresent, totalAbsent, attendanceHistory or
\* assignmentHistory.
C15_EnrollmentKeepsAggregate ==
  [][(nOps' = nOps + 1 /\ lastReq' \in EnrollmentOps) =>
       \A u \in DOMAIN user_manage :
         \A c \in DOMAIN user_manage[u].courses :
           /\ c \in DOMAIN user_manage'[u].courses
           /\ EventFields(user_manage'[u].courses[c]) = EventFields(user_manage[u].courses[c])]_vars

\* C16: adding a trainee to a batch roster is idempotent: after the same
\* payment is completed twice, or the same trainee is enrolled in the same
\* batch twice, the roster holds exactly one entry for that trainee.
C16_OneRosterEntryPerTrainee ==
  \A b \in DOMAIN trainees :
    \A i, j \in 1..Len(trainees[b]) :
      trainees[b][i].userId = trainees[b][j].userId => i = j

\* the order ids, payment ids and signatures of the requests considered
OrderIds == DOMAIN payment_orders \cup {"order_9"}
PaymentIds == {"pay_1", "pay_2"}
Signatures ==
  {Hmac(k, o, p) : k \in {Secret, "other_secret"}, o \in OrderIds, p \in PaymentIds}
    \cup {<<"forged">>}

\* C17: a verifyPayment whose signature is not the HMAC of
\* orderId|paymentId under the configured secret answers 400 and writes
\* nothing (no enrollment record, roster, aggregate and order unchanged),
\* and an order becomes paid only by a verifyPayment whose signature matched.
C17_ForgedSignatureWritesNothing ==
  [][/\ \A o \in OrderIds, p \in PaymentIds, sig \in Signatures :
          (sig # Hmac(Secret, o, p) /\ VerifyPayment(o, p, sig)) =>
            /\ response'.status = 400
            /\ UNCHANGED <<enrollments, trainees, user_manage, payment_orders>>
     /\ \A o \in DOMAIN payment_orders :
          (payment_orders[o].status # "paid" /\ payment_orders'[o].status = "paid") =>
            \E p \in PaymentIds : VerifyPayment(o, p, Hmac(Secret, o, p))]_vars

\* a verifyPayment has just been refused and the order is still unpaid
C17_Witness ==
  /\ lastReq = "verifyPayment"
  /\ response.status = 400
  /\ payment_orders["order_1"].status = "created"
  /\ enrollments = <<>>

(***************************************************************************)
(* Validation of RecordAttendance                                          *)
(***************************************************************************)
\* the trainees on the roster of batch b
OnRoster(b) == {trainees[b][n].userId : n \in 1..Len(trainees[b])}

\* request lists of at most MaxDetails entries that name somebody who is
\* not on the roster of Batch1
OutsiderInputs ==
  {sd \in SeqsUpTo(DetailEntries \cup {[studentId |-> Outsider, status |-> "Present"]},
                   MaxDetails) :
     \E i \in 1..Len(sd) : sd[i].studentId \notin OnRoster(Batch1)}

\* C18: a RecordAttendance whose studentDetails name a student who is not
\* on the batch roster answers 400, reports exactly the offending students
\* and writes nothing to attendance, the roster or the user aggregates.
C18_NonMemberRejected ==
  \A sd \in OutsiderInputs, d \in ProvidedIds \cup {NoDoc} :
    \A pick \in Picks(sd) :
      LET r == RecordAttendanceOn(DB, Course1, Batch1, sd, d, pick)
      IN  /\ r.response.status = 400
          /\ {r.response.invalidStudents[n] : n \in 1..Len(r.response.invalidStudents)}
               = {sd[i].studentId : i \in {j \in 1..Len(sd) : sd[j].studentId \notin OnRoster(Batch1)}}
          /\ r.attendance = attendance
          /\ r.trainees = trainees
          /\ r.user_manage = user_manage

\* a request naming a student outside the roster has just been refused
C18_Witness ==
  /\ lastReq = "RecordAttendance"
  /\ response.status = 400
  /\ response.invalidStudents = <<Outsider>>

(***************************************************************************)
(* Rejected writes                                                         *)
(***************************************************************************)
\* C19: once SubmitAssignment has appended the submission, a rejected
\* roster scores write or a rejected aggregate write does not fail the
\* request: the response is the success response.
C19_SubmitSurvivesDerivedWriteFailure ==
  \A d \in DOMAIN assignments :
    \A a \in DOMAIN assignments[d].fields :
      \A t \in Trainees, score \in 0..MaxScore, failed \in {"trainees", "user_manage"} :
        LET r0 == SubmitAssignmentOn(AsgDB, d, a, t, score)
            r == SubmitAssignmentWith(AsgDB, d, a, t, score, failed)
        IN  r0.response.status = 200 =>
              /\ r.assignments = r0.assignments
              /\ r.response.status = 200

\* the user documents of the trainees other than those in who
OtherUsers(users, who) == [u \in DOMAIN users \ who |-> users[u]]

\* C20: in RecordAttendance a rejected aggregate write of one trainee does
\* not fail the request and prevents neither the roster counters commit nor
\* the aggregate writes of the other trainees.
C20_RecordSurvivesAggregateWriteFailure ==
  \A sd \in DetailInputs, d \in ProvidedIds \cup {NoDoc} :
    \A i \in 1..Len(sd) :
      LET r0 == RecordAttendanceWith(DB, Course1, Batch1, sd, d, ZeroPick(sd), {})
          r == RecordAttendanceWith(DB, Course1, Batch1, sd, d, ZeroPick(sd), {i})
      IN  r0.response.status \in {200, 201} =>
            /\ r.response.status = r0.response.status
            /\ r.trainees = r0.trainees
            /\ OtherUsers(r.user_manage, {sd[i].studentId})
                 = OtherUsers(r0.user_manage, {sd[i].studentId})

\* the store left untouched by a request that answers r
NoDerivedWrite(r) == r.trainees = trainees /\ r.user_manage = user_manage

\* C21: when the primary write of RecordAttendance (the upsert of the
\* attendance record), of SubmitAssignment (the append to submissions) or of
\* DeleteAssignment (the delete of the document or field) is rejected, the
\* response is an error and neither the roster nor any user's course
\* aggregate is written.  The requests are those that reach their primary
\* write: enrolled students for the batch of the store, an assignment that
\* exists and, for a submission, a trainee who has not submitted yet.
C21_PrimaryWriteFailureAborts ==
  /\ \A sd \in SeqsUpTo(DetailEntries, MaxDetails), d \in ProvidedIds \cup {NoDoc} :
       \A failed \in SUBSET (0..Len(sd)) :
         0 \in failed =>
           RecordAttendanceWith(DB, Course1, Batch1, sd, d, ZeroPick(sd), failed)
             = [attendance |-> attendance, user_manage |-> user_manage,
                trainees |-> trainees, response |-> Reply(500)]
  /\ \A d \in DOMAIN assignments :
       \A a \in DOMAIN assignments[d].fields :
         /\ \A t \in Trainees, score \in 0..MaxScore :
              LET r0 == SubmitAssignmentOn(AsgDB, d, a, t, score)
                  r == SubmitAssignmentWith(AsgDB, d, a, t, score, "assignments")
              IN  r0.response.status = 200 =>
                    /\ r.response.status >= 400
                    /\ r.assignments = assignments
                    /\ NoDerivedWrite(r)
         /\ LET r == DeleteAssignmentWith(AsgDB, d, a, "assignments")
            IN  /\ r.response.status >= 400
                /\ r.assignments = assignments
                /\ NoDerivedWrite(r)

\* a RecordAttendance whose upsert was rejected has answered 500 and left an
\* aggregate written by an earlier submission as it was
C21_Witness ==
  /\ lastReq = "RecordAttendance"
  /\ response.status = 500
  /\ attendance = <<>>
  /\ \E t \in Trainees :
       /\ Course1 \in DOMAIN user_manage[t].courses
       /\ user_manage[t].courses[Course1].assignmentHistory # <<>>
       /\ Num(user_manage[t].courses[Course1].totalPresent) = 0
       /\ Num(user_manage[t].courses[Course1].totalAbsent) = 0

(***************************************************************************)
(* Order of the writes of RecordAttendance                                 *)
(***************************************************************************)
\* C22: RecordAttendance writes the attendance record, then commits the
\* roster counters, then writes the trainees' aggregates: while the roster
\* commit of a request is still to come, no user document reflects the
\* request.
C22_RosterCommittedBeforeAggregates ==
  inFlight.at \in {"upserted", "aggregates"} => user_manage = inFlight.users

\* C23: DeleteAttendance of a record that does not exist answers 404 and
\* writes nothing; a step that deletes an attendance record starts from a
\* store in which the roster reversal and every aggregate reversal of that
\* request are already written.
C23_RecordDeletedLast ==
  [][/\ \A recordId \in ProvidedIds \ DOMAIN attendance :
          DeleteAttendanceOn(DB, recordId, <<>>)
            = [attendance |-> attendance, user_manage |-> user_manage,
               trainees |-> trainees, response |-> Reply(404)]
     /\ \A recordId \in DOMAIN attendance \ DOMAIN attendance' :
          /\ inFlight.at # "idle"
          /\ inFlight.recordId = recordId
          /\ trainees = inFlight.result.trainees
          /\ user_manage = inFlight.result.user_manage]_vars

\* a delete has removed the only record after reversing a trainee's counter
\* in the roster and in the aggregate
C23_Witness ==
  /\ lastReq = "DeleteAttendance"
  /\ response.status = 200
  /\ attendance = <<>>
  /\ \E u \in Trainees :
       /\ Course1 \in DOMAIN user_manage[u].courses
       /\ user_manage[u].courses[Course1].totalPresent = 0
       /\ user_manage[u].courses[Course1].attendanceHistory = <<>>
       /\ \E n \in 1..Len(trainees[Batch1]) :
            trainees[Batch1][n].userId = u /\ trainees[Batch1][n].totalPresent = 0

\* C24: in DeleteAssignment a rejected aggregate write of one submitting
\* trainee does not stop the reversal for the other submitters: their
\* assignmentHistory and averageScore are what the failure-free delete leaves,
\* and the response is the success response.
C24_DeleteReversesRemainingSubmitters ==
  \A d \in DOMAIN assignments :
    \A a \in DOMAIN assignments[d].fields :
      \A t \in Trainees :
        LET r0 == DeleteAssignmentOn(AsgDB, d, a)
            r == DeleteAssignmentWith(AsgDB, d, a, t)
        IN  /\ r.response.status = 200
            /\ OtherUsers(r.user_manage, {t}) = OtherUsers(r0.user_manage, {t})

(***************************************************************************)
(* The document a RecordAttendance request writes                          *)
(***************************************************************************)
\* the document id a request writes to: the explicit one, or the one derived
\* from the current date
TargetId(providedDocumentId) ==
  IF providedDocumentId # NoDoc THEN providedDocumentId
  ELSE FormatDate(today) \o Batch1

\* the stored documents of the batch, other than the target, whose id starts
\* with the three segments the target id starts with
SameDayOthers(documentId) ==
  {id \in DOMAIN attendance \ {documentId} :
     /\ attendance[id].batchId = Batch1
     /\ \A n \in 1..3 : id[n] = documentId[n]}

\* C25: the first-record-of-the-day flag of RecordAttendance is true iff no
\* stored attendance document of the same batch, other than the document
\* being written, has an id whose first three segments are the date part of
\* the target document id.
C25_FirstOfDayIffNoOtherSameDay ==
  \A d \in ProvidedIds \cup {NoDoc} :
    IsFirstAttendanceForDay(attendance, Batch1, TargetId(d))
      <=> SameDayOthers(TargetId(d)) = {}

\* a record was created on a day that already had a record under another id:
\* the flag was false and the listed trainee's roster counters stayed at one
\* record
C25_Witness ==
  /\ lastReq = "RecordAttendance"
  /\ response.status = 201
  /\ \E id \in DOMAIN attendance :
       /\ SameDayOthers(id) # {}
       /\ \E n \in 1..Len(trainees[Batch1]) :
            /\ trainees[Batch1][n].userId \in Listed(attendance[id].studentDetails)
            /\ \A other \in SameDayOthers(id) :
                 trainees[Batch1][n].userId \in Listed(attendance[other].studentDetails)
            /\ Num(trainees[Batch1][n].totalPresent) + Num(trainees[Batch1][n].totalAbsent) = 1

\* C26: RecordAttendance takes the update path (a prior record under the
\* target id, whose statuses the counters are moved against, answer 200)
\* exactly when an explicit documentId is supplied, and the create path (no
\* prior record, answer 201) exactly when the id is derived from the date.
C26_PathFollowsDocumentId ==
  \A sd \in ShortInputs, d \in ProvidedIds \cup {NoDoc} :
    LET r == RecordAttendanceOn(DB, Course1, Batch1, sd, d, ZeroPick(sd))
    IN  r.response.status \in {200, 201} =>
          IF d # NoDoc
          THEN r.response.status = 200 /\ TargetId(d) \in DOMAIN attendance
          ELSE r.response.status = 201 /\ TargetId(d) \notin DOMAIN attendance

(***************************************************************************)
(* Counters                                                                *)
(***************************************************************************)
\* a counter field: absent from the document, or a number that is not
\* negative
NotNegative(counter) == counter = Undef \/ counter >= 0

\* C27: in every reachable state totalPresent and totalAbsent of every roster
\* entry and of every user's course aggregate are >= 0 where they are
\* stored: DeleteAttendance and a status-changing update leave a counter
\* that is 0 at 0.
C27_CountersNeverNegative ==
  /\ \A b \in DOMAIN trainees :
       \A n \in 1..Len(trainees[b]) :
         /\ NotNegative(trainees[b][n].totalPresent)
         /\ NotNegative(trainees[b][n].totalAbsent)
  /\ \A u \in DOMAIN user_manage :
       \A c \in DOMAIN user_manage[u].courses :
         /\ NotNegative(user_manage[u].courses[c].totalPresent)
         /\ NotNegative(user_manage[u].courses[c].totalAbsent)

\* two records of one day list a trainee, whose roster entry has two absences
\* and no presence: only one of the two records was counted when created, so
\* the update that turned the other from Present to Absent found totalPresent
\* at 0 and left it there
C27_Witness ==
  /\ lastReq = "RecordAttendance"
  /\ response.status = 200
  /\ Cardinality(DOMAIN attendance) = 2
  /\ \A id \in DOMAIN attendance : SameDayOthers(id) # {}
  /\ \E n \in 1..Len(trainees[Batch1]) :
       /\ trainees[Batch1][n].totalPresent = 0
       /\ trainees[Batch1][n].totalAbsent = 2

(***************************************************************************)
(* Batch resolution in RecordAttendance                                    *)
(***************************************************************************)
\* the base document RecordAttendance reads for batchId
RecordBase(batchId) == <<batchId[1], batchId[2], "25">>

\* batchId is no key of its base document, but some field has its suffix
ResolvedBySuffix(batchId) ==
  /\ batchId \in DOMAIN trainees
  /\ RecordBase(batchId) \in DOMAIN batches
  /\ batchId \notin DOMAIN batches[RecordBase(batchId)]
  /\ MatchingKeys(batches[RecordBase(batchId)], batchId[Len(batchId)]) # {}

\* C28: when the base batch document has no field keyed by the request's
\* batchId but has a field whose suffix is the batchId's last segment,
\* RecordAttendance resolves the batch through that field, uses the field's
\* key as batchId from then on and records the attendance.
C28_SuffixLookupRecordsAttendance ==
  \A batchId \in BatchIds :
    ResolvedBySuffix(batchId) =>
      \A studentDetails \in ShortInputs :
        LET r == RecordAttendanceOn(DB, Course1, batchId, studentDetails, NoDoc,
                                    ZeroPick(studentDetails))
        IN  /\ r.response.status \in {200, 201}
            /\ \E id \in DOMAIN r.attendance :
                 r.attendance[id].batchId
                   \in MatchingKeys(batches[RecordBase(batchId)], batchId[Len(batchId)])

(***************************************************************************)
(* The configuration cache                                                 *)
(***************************************************************************)
\* C29: a value returned by getAppConfig, and so by getRazorpayConfig, was
\* read from the store less than 5 minutes before the call: a cached value
\* is reused only inside the window and refetched past it, and a refetch
\* that fails leaves the cached value and its fetch time as they were.
C29_ReturnedConfigIsFresh ==
  [][(GetAppConfig \/ GetRazorpayConfig) =>
       IF config'.returned # NoConfig
       THEN config'.now - config'.returned.readAt < CacheDuration
       ELSE /\ config'.cachedConfig = config.cachedConfig
            /\ config'.lastFetchTime = config.lastFetchTime]_vars

(***************************************************************************)
(* Roster and aggregate                                                    *)
(***************************************************************************)
\* C30: after the trainees have enrolled, once each, and any sequence of
\* RecordAttendance and DeleteAttendance requests for the batch and course
\* has been handled one after the other without a failure, every trainee's
\* roster entry and course aggregate agree on totalPresent and totalAbsent.
C30_RosterAgreesWithAggregate ==
  \A n \in 1..Len(trainees[Batch1]) :
    LET entry == trainees[Batch1][n]
        u == entry.userId
    IN  (u \in DOMAIN user_manage /\ Course1 \in DOMAIN user_manage[u].courses) =>
          /\ Num(entry.totalPresent) = Num(user_manage[u].courses[Course1].totalPresent)
          /\ Num(entry.totalAbsent) = Num(user_manage[u].courses[Course1].totalAbsent)

(***************************************************************************)
(* Concurrent requests                                                     *)
(***************************************************************************)
\* the days of the entries of a history
HistoryDays(attendanceHistory) ==
  {attendanceHistory[i].date.date : i \in 1..Len(attendanceHistory)}

\* C31: when two RecordAttendance requests for one batch on two different
\* dates run concurrently and both report success, then for each trainee
\* listed in both the roster totalPresent + totalAbsent and the aggregate
\* totalPresent + totalAbsent have each grown by 2 (from 0, the counters of
\* the enrolled store) and attendanceHistory holds an entry for both dates.
C31_BothConcurrentRecordsCounted ==
  (/\ inFlight.at = "racing"
   /\ \A p \in 1..2 : inFlight.reqs[p].pc = "done" /\ inFlight.reqs[p].status \in {200, 201})
  =>
  \A u \in Listed(inFlight.reqs[1].studentDetails) \cap Listed(inFlight.reqs[2].studentDetails) :
    /\ \A n \in 1..Len(trainees[Batch1]) :
         trainees[Batch1][n].userId = u =>
           Num(trainees[Batch1][n].totalPresent) + Num(trainees[Batch1][n].totalAbsent) = 2
    /\ Course1 \in DOMAIN user_manage[u].courses =>
         /\ Num(user_manage[u].courses[Course1].totalPresent)
              + Num(user_manage[u].courses[Course1].totalAbsent) = 2
         /\ HistoryDays(user_manage[u].courses[Course1].attendanceHistory) = {1, 2}

\* the trainees with an entry in the roster of the batch
RosterMembers(batchId) ==
  {trainees[batchId][n].userId : n \in 1..Len(trainees[batchId])}

\* C32: a trainee added to the roster of a batch by CompletePayment or by a
\* manual payment (the handlers that also store the enrollment record) is a
\* roster member in every later state, however the enrolment interleaves
\* with the roster write-backs of other handlers.
C32_EnrolledTraineeStaysOnRoster ==
  \A i \in 1..Len(enrollments) :
    enrollments[i].batchId = Batch1 => enrollments[i].userId \in RosterMembers(Batch1)

\* C33: under every interleaving of two SubmitAssignment requests for the
\* same (documentId, assignmentName, traineeId), at most one reports
\* success, the submissions of the assignment hold at most one submission
\* of the trainee, and the trainee's roster scores hold at most one entry
\* for that assignment.
C33_OneOfTwoSubmitsSucceeds ==
  inFlight.at = "twice" =>
    LET q == inFlight.reqs[1]
        submissions == assignments[q.documentId].fields[q.assignmentName].submissions
    IN  /\ Cardinality({p \in 1..2 : inFlight.reqs[p].status = 200}) <= 1
        /\ Cardinality({i \in 1..Len(submissions) :
                          submissions[i].traineeId = q.traineeId}) <= 1
        /\ \A n \in 1..Len(trainees[Batch1]) :
             trainees[Batch1][n].userId = q.traineeId =>
               Cardinality({k \in 1..Len(trainees[Batch1][n].scores) :
                              /\ trainees[Batch1][n].scores[k].assignmentId = q.documentId
                              /\ trainees[Batch1][n].scores[k].assignmentName = q.assignmentName})
                 <= 1

\* C34: a DeleteAttendance request that ends with an error response leaves
\* the record in place and the roster counters and every aggregate as they
\* were before the call (so that a retry reverses the record exactly once).
C34_FailedDeleteChangesNothing ==
  \A recordId \in DOMAIN attendance, failed \in UndoFailures :
    LET r == DeleteAttendanceWith(DB, recordId,
                                  ZeroPick(attendance[recordId].studentDetails), failed)
    IN  r.response.status = 500 =>
          /\ recordId \in DOMAIN r.attendance
          /\ r.trainees = trainees
          /\ r.user_manage = user_manage

\* C35: every submitted, not deleted assignment has its own entry in the
\* submitter's assignmentHistory: when one trainee has submitted two
\* differently named assignments of one date-batch document both entries
\* are there, and deleting one assignment leaves the entry of the other.
C35_EntryPerSubmittedAssignment ==
  \A d \in DOMAIN assignments :
    \A a \in DOMAIN assignments[d].fields :
      LET c == assignments[d].fields[a].courseId
          submissions == assignments[d].fields[a].submissions
      IN  \A i \in 1..Len(submissions) :
            LET t == submissions[i].traineeId IN
            (t \in DOMAIN user_manage /\ c \in DOMAIN user_manage[t].courses) =>
              \E k \in 1..Len(user_manage[t].courses[c].assignmentHistory) :
                EntryOf(user_manage[t].courses[c].assignmentHistory[k], d, a)

\* C36: DeleteAssignment never writes the roster document: a step that
\* handles a DeleteAssignment request leaves every roster as it was, so
\* every score entry that SubmitAssignment recorded in a RosterEntry.scores,
\* those of the deleted assignment included, is still in the roster.
C36_DeleteAssignmentKeepsRoster ==
  [][(lastReq' = "DeleteAssignment" /\ nOps' = nOps + 1) =>
       /\ trainees' = trainees
       /\ \A n \in 1..Len(trainees[Batch1]) :
            \A k \in 1..Len(trainees[Batch1][n].scores) :
              \E m \in 1..Len(trainees'[Batch1][n].scores) :
                trainees'[Batch1][n].scores[m] = trainees[Batch1][n].scores[k]]_vars

\* an assignment with a submission has been deleted (200) and the roster
\* still holds the score entry of that submission
C36_Witness ==
  /\ lastReq = "DeleteAssignment"
  /\ response.status = 200
  /\ \E n \in 1..Len(trainees[Batch1]) :
       \E k \in 1..Len(trainees[Batch1][n].scores) :
         LET e == trainees[Batch1][n].scores[k]
         IN  \/ e.assignmentId \notin DOMAIN assignments
             \/ e.assignmentName \notin DOMAIN assignments[e.assignmentId].fields

\* the number of entries the roster of a batch holds for a user
EntriesOf(batchId, userId) ==
  Cardinality({n \in 1..Len(trainees[batchId]) : trainees[batchId][n].userId = userId})

\* C37: under any sequence of CompletePayment, manual payment,
\* RecordAttendance and DeleteAttendance requests the roster of a batch
\* holds at most one entry per userId.
C37_RosterHasNoDuplicateUser ==
  \A b \in DOMAIN trainees :
    \A u \in Trainees \cup {Outsider} : EntriesOf(b, u) <= 1

\* the number of enrollment records that reference a payment order
EnrollmentsOf(orderId) ==
  Cardinality({i \in 1..Len(enrollments) : enrollments[i].orderId = orderId})

\* C38: each payment order is referenced by at most one enrollment record,
\* and a 'paid' order by exactly one: repeating verifyPayment for an order
\* that is already paid creates no further enrollment record.
C38_OneEnrollmentPerOrder ==
  \A o \in DOMAIN payment_orders :
    /\ EnrollmentsOf(o) <= 1
    /\ payment_orders[o].status = "paid" => EnrollmentsOf(o) = 1

\* C39: in a base batch document at most one batch field carries a given
\* suffix: creating a batch whose suffix is already there, or updating a
\* batch, never leaves two fields with the same suffix.
C39_OneFieldPerSuffix ==
  \A d \in DOMAIN batches :
    \A s \in Suffixes : Cardinality(MatchingKeys(batches[d], s)) <= 1

\* C40: starting from a roles document that holds an active role 'Admin',
\* after any sequence of role create, update, rename and delete requests the
\* document still holds a role named 'Admin' that is active; and a rename
\* whose new name already exists is rejected with 400 and changes nothing.
C40_AdminRoleStays ==
  /\ "Admin" \in DOMAIN role_permissions
  /\ role_permissions["Admin"].active = TRUE
  /\ \A roleName \in DOMAIN role_permissions, body \in RoleBodies :
       (/\ Sent(body, "name")
        /\ body.name # roleName
        /\ body.name \in DOMAIN role_permissions
        /\ ~(roleName = "Admin" /\ Sent(body, "active") /\ body.active = FALSE))
       => UpdateRoleOn(role_permissions, roleName, body)
            = [roles |-> role_permissions, status |-> 400]
====
